---------------------------- MODULE Spec2Model ----------------------------
(***************************************************************************)
(* A model of the a22 runtime: the Policy Enforcer, the Workflow Engine    *)
(* and the Model Gateway.  Each subsystem has its own specification over   *)
(* the shared variables; a subsystem's specification leaves the other      *)
(* subsystems' variables at their initial values.                          *)
(***************************************************************************)
EXTENDS Integers, Sequences, FiniteSets, TLC

VARIABLES
    policy,     \* PolicyEnforcer.policy: the policy value the enforcer is bound to
    check,      \* the last access check made on the enforcer and its outcome
    workflow,   \* per invocation: the workflowBlock passed to WorkflowEngine.execute
    scope,      \* per invocation: execute's local `scope` object
    stepIdx,    \* per invocation: position of execute's loop in stepsBlock.attributes
    calls,      \* per invocation: the step calls started and not yet settled
    wfStatus,   \* per invocation: "idle", "running", "returned" or "threw"
    wfResult,   \* per invocation: what execute returned or threw
    auditLog,   \* the events handed to the runtime's audit logger, in order
    trace,      \* per invocation: history of the step calls started and settled
    providerConfigs, \* the `providers` array the ModelGateway is constructed with
    initIdx,    \* ModelGateway.initializeProviders: position of its loop in `providers`
    registry,   \* ModelGateway.registry: the ids of the registered providers
    rateLimiters, \* ModelGateway.rateLimiters: per limited provider, the permits granted
    usageStats, \* ModelGateway.usageStats: per provider {requests, tokens, errors}
    gwCalls,    \* per complete() call in progress or finished: its position and history
    issued,     \* number of complete() calls made so far
    adapterOk,  \* per provider: the adapter calls that resolved so far (history)
    now,        \* Date.now(), in ms since the RateLimiter was constructed
    limiter,    \* a RateLimiter: its limits, maxTokens, tokens and lastRefill
    acq,        \* per caller of acquire(): idle, or suspended in its wait
    acqLog,     \* history of the acquire() calls on the limiter, in call order
    securityConfig, \* ToolSandbox.securityConfig: validate, sandbox and output parts
    toolFn,     \* the tool function handed to execute: "settles" or "never"
    toolInput,  \* the input handed to execute: its entries in property order
    exec,       \* one ToolSandbox.execute call: its position, promises and outcome
    blocks,     \* Runtime.blocks: the Map of "type.identifier" to block, in insertion order
    ir,         \* Runtime.ir: the program loaded last
    gateway,    \* Runtime.gateway: the load that constructed it, 0 when undefined
    policies,   \* Runtime.policies: per policy id, the load that constructed its enforcer
    loads,      \* number of Runtime.load calls made so far
    emits,      \* per emit() call: its position in the loops and its history
    emitted,    \* number of emit() calls made so far
    evalExpr,   \* the expression handed to WorkflowEngine.evaluateExpression
    evalScope,  \* the scope object handed to evaluateExpression
    evalResult, \* what evaluateExpression returned, once it has
    credentials, \* config.credentials of the provider handed to createProvider
    credResult, \* the apiKey createProvider resolved, once it has
    agentEnv,   \* what two executeAgent runs share: the agent, the runtime, the gateway's answer
    agentRuns,  \* per run of executeAgent: its policy, position, audit events, call and outcome
    guardConfig, \* securityConfig.sandbox of the ToolSandbox whose guards are called
    guardHost,  \* the host handed to checkNetworkAccess
    guardResult \* what checkNetworkAccess threw, once it was called

policyVars == <<policy, check>>

workflowVars == <<workflow, scope, stepIdx, calls, wfStatus, wfResult, auditLog, trace>>

gatewayVars ==
    <<providerConfigs, initIdx, registry, rateLimiters, usageStats, gwCalls, issued, adapterOk>>

limiterVars == <<limiter, acq, acqLog>>

sandboxVars == <<securityConfig, toolFn, toolInput, exec>>

runtimeVars == <<blocks, ir, gateway, policies, loads, emits, emitted>>

evalVars == <<evalExpr, evalScope, evalResult>>

credVars == <<credentials, credResult>>

agentVars == <<agentEnv, agentRuns>>

guardVars == <<guardConfig, guardHost, guardResult>>

vars == <<policy, check, workflow, scope, stepIdx, calls, wfStatus, wfResult, auditLog, trace,
          providerConfigs, initIdx, registry, rateLimiters, usageStats, gwCalls, issued,
          adapterOk,
          now, limiter, acq, acqLog, securityConfig, toolFn, toolInput, exec,
          blocks, ir, gateway, policies, loads, emits, emitted,
          evalExpr, evalScope, evalResult, credentials, credResult,
          agentEnv, agentRuns, guardConfig, guardHost, guardResult>>

\* What the actions of one subsystem leave alone: the other subsystems.
\* The clock `now` is shared by the subsystems that read the time.
notPolicy ==
    <<workflowVars, gatewayVars, now, limiterVars, sandboxVars, runtimeVars, evalVars, credVars, agentVars, guardVars>>

notWorkflow ==
    <<policyVars, gatewayVars, now, limiterVars, sandboxVars, runtimeVars, evalVars, credVars, agentVars, guardVars>>

notGateway ==
    <<policyVars, workflowVars, now, limiterVars, sandboxVars, runtimeVars, evalVars, credVars, agentVars, guardVars>>

notLimiter ==
    <<policyVars, workflowVars, gatewayVars, sandboxVars, runtimeVars, evalVars, credVars, agentVars, guardVars>>

notSandbox ==
    <<policyVars, workflowVars, gatewayVars, limiterVars, runtimeVars, evalVars, credVars, agentVars, guardVars>>

notRuntime ==
    <<policyVars, workflowVars, gatewayVars, now, limiterVars, sandboxVars, evalVars, credVars, agentVars, guardVars>>

notEval ==
    <<policyVars, workflowVars, gatewayVars, now, limiterVars, sandboxVars, runtimeVars,
      credVars, agentVars, guardVars>>

notCred ==
    <<policyVars, workflowVars, gatewayVars, now, limiterVars, sandboxVars, runtimeVars,
      evalVars, agentVars, guardVars>>

notAgent ==
    <<policyVars, workflowVars, gatewayVars, now, limiterVars, sandboxVars, runtimeVars,
      evalVars, credVars, guardVars>>

notGuard ==
    <<policyVars, workflowVars, gatewayVars, now, limiterVars, sandboxVars, runtimeVars,
      evalVars, credVars, agentVars>>

(***************************************************************************)
(* Policy Enforcer (src/unnamed/part_000)                                  *)
(***************************************************************************)

\* Longest allow or deny list of a generated policy.
MaxListLen == 1

ResourceIds == {"r1", "r2"}

ResourceKinds == {"tools", "workflows", "data"}

\* An optional id list of a policy (policy.deny?.tools, policy.allow?.tools, ...):
\* either undefined, or an array whose elements are `items` (possibly none).
NoList == [present |-> FALSE, items |-> {}]

IdList(s) == [present |-> TRUE, items |-> s]

IdLists ==
    {NoList} \cup {IdList(s) : s \in {t \in SUBSET ResourceIds : Cardinality(t) <= MaxListLen}}

Policies ==
    [deny : [ResourceKinds -> IdLists], allow : [ResourceKinds -> IdLists]]

\* Array.prototype.includes behind optional chaining: false on an undefined list.
includes(list, x) == list.present /\ x \in list.items

NoError == [raised |-> "none", rule |-> "none"]

PolicyError(rule) == [raised |-> "PolicyError", rule |-> rule]

\* A checkToolAccess that consults the allow list before the deny list.
checkToolAccessAllowFirst(p, toolId) ==
    IF p.allow["tools"].present /\ includes(p.allow["tools"], toolId)
    THEN NoError
    ELSE IF includes(p.deny["tools"], toolId)
         THEN PolicyError("explicitly denied")
         ELSE IF p.allow["tools"].present
              THEN PolicyError("not in allowed list")
              ELSE NoError

\* A checkToolAccess that takes an empty allow list for no allow list.
checkToolAccessEmptyAllowIgnored(p, toolId) ==
    IF includes(p.deny["tools"], toolId)
    THEN PolicyError("explicitly denied")
    ELSE IF p.allow["tools"].present /\ p.allow["tools"].items # {}
              /\ ~includes(p.allow["tools"], toolId)
         THEN PolicyError("not in allowed list")
         ELSE NoError

checkToolAccess(p, toolId) ==
    IF includes(p.deny["tools"], toolId)
    THEN PolicyError("explicitly denied")
    ELSE IF p.allow["tools"].present /\ ~includes(p.allow["tools"], toolId)
         THEN PolicyError("not in allowed list")
         ELSE NoError

checkWorkflowAccess(p, workflowId) ==
    IF includes(p.deny["workflows"], workflowId)
    THEN PolicyError("explicitly denied")
    ELSE IF p.allow["workflows"].present /\ ~includes(p.allow["workflows"], workflowId)
         THEN PolicyError("not in allowed list")
         ELSE NoError

checkDataAccess(p, dataId) ==
    IF includes(p.deny["data"], dataId)
    THEN PolicyError("explicitly denied")
    ELSE IF p.allow["data"].present /\ ~includes(p.allow["data"], dataId)
         THEN PolicyError("not in allowed list")
         ELSE NoError

NoCheck == [kind |-> "none", id |-> "none", outcome |-> NoError]

PolicyInit ==
    /\ policy \in Policies
    /\ check = NoCheck

PolicyIdle ==
    /\ policy = [deny |-> [k \in ResourceKinds |-> NoList],
                 allow |-> [k \in ResourceKinds |-> NoList]]
    /\ check = NoCheck

CheckToolAccess ==
    \E x \in ResourceIds :
        /\ check' = [kind |-> "tools", id |-> x, outcome |-> checkToolAccess(policy, x)]
        /\ UNCHANGED <<policy, notPolicy>>

CheckWorkflowAccess ==
    \E x \in ResourceIds :
        /\ check' = [kind |-> "workflows", id |-> x,
                     outcome |-> checkWorkflowAccess(policy, x)]
        /\ UNCHANGED <<policy, notPolicy>>

CheckDataAccess ==
    \E x \in ResourceIds :
        /\ check' = [kind |-> "data", id |-> x, outcome |-> checkDataAccess(policy, x)]
        /\ UNCHANGED <<policy, notPolicy>>

(***************************************************************************)
(* Workflow Engine (src/src/workflow.ts)                                   *)
(***************************************************************************)

\* Most step attributes of a generated workflow.
MaxSteps == 3

\* JavaScript values, tagged by type.
Undefined == [t |-> "undefined"]

Null == [t |-> "null"]

Num(n) == [t |-> "number", n |-> n]

Str(s) == [t |-> "string", s |-> s]

Bool(b) == [t |-> "boolean", b |-> b]

Obj(o) == [t |-> "object", o |-> o]

List(l) == [t |-> "array", l |-> l]

\* An Error thrown, with the text its message starts with.
Error(name, message) == [t |-> "error", name |-> name, message |-> message]

\* AST expressions.
Literal(v) == [kind |-> "Literal", value |-> v]

Reference(path) == [kind |-> "Reference", path |-> path]

ListExpression(elements) == [kind |-> "List", elements |-> elements]

MapExpression(properties) == [kind |-> "Map", properties |-> properties]

BlockExpression(type, identifier, attributes) ==
    [kind |-> "BlockExpression", type |-> type, identifier |-> identifier,
     attributes |-> attributes]

Attribute(key, value) == [key |-> key, value |-> value]

\* value[part] without the optional chaining: reading a property of
\* undefined or null throws a TypeError.
GetPartUnguarded(value, part) ==
    IF value.t \in {"undefined", "null"}
    THEN Error("TypeError", "Cannot read properties")
    ELSE IF value.t = "object" /\ part \in DOMAIN value.o THEN value.o[part] ELSE Undefined

\* value?.[part]: an own property of an object, undefined for a missing
\* property and for undefined, null and primitive values (the keys of the
\* model are plain data keys, never built-in property names such as length).
GetPart(value, part) ==
    IF value.t = "object" /\ part \in DOMAIN value.o THEN value.o[part] ELSE Undefined

RECURSIVE ResolvePath(_, _)
ResolvePath(path, value) ==
    IF path = <<>> THEN value
    ELSE ResolvePath(Tail(path), GetPart(value, Head(path)))

\* The object built by assigning attrs[i].key := vals[i] in order: a later
\* attribute of the same key overwrites an earlier one.
AssignAll(attrs, vals) ==
    [k \in {attrs[i].key : i \in 1..Len(attrs)} |->
        vals[CHOOSE i \in 1..Len(attrs) :
                /\ attrs[i].key = k
                /\ \A j \in (i + 1)..Len(attrs) : attrs[j].key # k]]

RECURSIVE evaluateExpression(_, _)
evaluateExpression(expr, sc) ==
    CASE expr.kind = "Literal" -> expr.value
      [] expr.kind = "Reference" -> ResolvePath(expr.path, Obj(sc))
      [] expr.kind = "List" ->
            List([i \in 1..Len(expr.elements) |->
                    evaluateExpression(expr.elements[i], sc)])
      [] expr.kind = "Map" ->
            Obj(AssignAll(expr.properties,
                          [i \in 1..Len(expr.properties) |->
                              evaluateExpression(expr.properties[i].value, sc)]))
      [] OTHER -> Null

\* The `inputs` object a step builds from its block's attributes.
EvaluateInputs(blockExpr, sc) ==
    AssignAll(blockExpr.attributes,
              [i \in 1..Len(blockExpr.attributes) |->
                  evaluateExpression(blockExpr.attributes[i].value, sc)])

\* ir.tools: the tool definitions of the loaded program.  `handler` is
\* "external" for a string of the form external("<url>"), "other" for any
\* other string and "none" for a tool without handler; `max` holds the
\* security.validate rule {max} per input field; `sandbox` says whether
\* security.sandbox is configured.
NoRules == [f \in {} |-> 0]

IRTools == {
    [id |-> "echo", handler |-> "external", max |-> NoRules, sandbox |-> FALSE],
    [id |-> "safe", handler |-> "external", max |-> [x |-> 15], sandbox |-> TRUE],
    [id |-> "pass", handler |-> "none", max |-> NoRules, sandbox |-> FALSE],
    [id |-> "legacy", handler |-> "other", max |-> NoRules, sandbox |-> FALSE] }

\* ir.tools.find(t => t.id === toolName)
HasTool(toolName) == \E t \in IRTools : t.id = toolName

FindTool(toolName) == CHOOSE t \in IRTools : t.id = toolName

\* The JSON bodies the external handler of the model answers with.
HandlerResults == {Num(10), Num(20)}

\* The response runtime.executeAgent resolves to in the model.
AgentResponse == [content |-> Str("hello"), usage |-> Obj([total_tokens |-> Num(7)])]

\* The key of the k-th step attribute.
StepNames == <<"s1", "s2", "s3", "s4">>

\* The step expressions a generated workflow draws from.
StepExprs == {
    BlockExpression("tool", "echo", <<Attribute("x", Literal(Num(10)))>>),
    BlockExpression("tool", "safe", <<Attribute("x", Reference(<<"s1">>))>>),
    BlockExpression("tool", "pass", <<Attribute("x", Reference(<<"s1">>))>>),
    BlockExpression("tool", "legacy", <<>>),
    BlockExpression("tool", "missing", <<>>),
    BlockExpression("agent", "a1", <<Attribute("message", Reference(<<"s1">>))>>),
    BlockExpression("capability", "cap", <<>>),
    BlockExpression("custom", "x", <<>>),
    Reference(<<"s1">>) }

StepLists(n) == [1..n -> StepExprs]

\* A workflowBlock: with a `steps` child holding the step attributes in
\* declaration order, or without one.
Workflows ==
    {[hasSteps |-> FALSE, steps |-> <<>>]}
    \cup {[hasSteps |-> TRUE,
           steps |-> [k \in 1..n |-> Attribute(StepNames[k], l[k])]] :
            <<n, l>> \in UNION {{<<m, sl>> : sl \in StepLists(m)} : m \in 0..MaxSteps}}

\* The input value passed to execute.
WorkflowInput == Obj([n |-> Num(5)])

\* The input of invocation i: the input recorded with its workflow, if
\* the specification gives the invocations inputs of their own.
InputOf(i) ==
    IF "input" \in DOMAIN workflow[i] THEN workflow[i].input ELSE WorkflowInput

\* Whether the loop body of execute runs a step for this expression.
IsExecutable(expr) ==
    expr.kind = "BlockExpression" /\ expr.type \in {"tool", "agent", "capability"}

\* JavaScript truthiness of a value.
Truthy(v) ==
    CASE v.t \in {"undefined", "null"} -> FALSE
      [] v.t = "number" -> v.n # 0
      [] v.t = "string" -> v.s # ""
      [] v.t = "boolean" -> v.b
      [] OTHER -> TRUE

\* InputValidator.validate: the first numeric field above its declared max
\* raises a ValidationError; fields without rules are not looked at.
InputInvalid(toolDef, inputs) ==
    \E f \in (DOMAIN inputs) \cap (DOMAIN toolDef.max) :
        inputs[f].t = "number" /\ inputs[f].n > toolDef.max[f]

\* The messages executeAgent builds from the evaluated inputs.
BuildMessages(inputs) ==
    IF "message" \in DOMAIN inputs /\ Truthy(inputs["message"])
    THEN <<[role |-> "user", content |-> inputs["message"]]>>
    ELSE IF "messages" \in DOMAIN inputs /\ inputs["messages"].t = "array"
         THEN inputs["messages"].l
         ELSE <<>>

\* The ways the call of a started step can settle.
Resolved(v) == [ok |-> TRUE, value |-> v]

Rejected(e) == [ok |-> FALSE, value |-> e]

Outcomes(c) ==
    CASE c.kind = "tool" /\ c.handler = "external" ->
            {Resolved(v) : v \in HandlerResults}
            \cup {Rejected(Error("Error", "Tool handler failed"))}
            \cup (IF c.sandbox
                  THEN {Rejected(Error("SandboxError", "Tool execution timeout"))}
                  ELSE {})
      [] c.kind = "tool" /\ c.handler = "other" ->
            {Rejected(Error("Error", "Unknown tool handler format"))}
      [] c.kind = "tool" /\ c.handler = "none" ->
            {Resolved(Obj([success |-> Bool(TRUE), data |-> Obj(c.inputs)]))}
      [] c.kind = "agent" ->
            {Resolved(Obj(AgentResponse)),
             Rejected(Error("Error", "Agent not found")),
             Rejected(Error("Error", "All providers failed"))}
      [] c.kind = "capability" ->
            {Resolved(Obj([success |-> Bool(TRUE), capability |-> Str(c.id)]))}

\* The invocations of a specification are the domain of its per-invocation
\* variables.
Invocations == DOMAIN wfStatus

Steps(i) == workflow[i].steps

\* An audit event as AuditLogger.logToolCall builds it.
ToolCallEvent(toolId, success, error) ==
    [event |-> "tool.call", tool |-> toolId, agent |-> "workflow",
     success |-> success, error |-> error]

WorkflowInitFor(ids) ==
    /\ workflow \in [ids -> Workflows]
    /\ scope = [i \in ids |-> <<>>]
    /\ stepIdx = [i \in ids |-> 1]
    /\ calls = [i \in ids |-> {}]
    /\ wfStatus = [i \in ids |-> "idle"]
    /\ wfResult = [i \in ids |-> Undefined]
    /\ auditLog = <<>>
    /\ trace = [i \in ids |-> <<>>]

WorkflowInit == WorkflowInitFor({1})

WorkflowIdle ==
    /\ workflow = <<>>
    /\ scope = <<>>
    /\ stepIdx = <<>>
    /\ calls = <<>>
    /\ wfStatus = <<>>
    /\ wfResult = <<>>
    /\ auditLog = <<>>
    /\ trace = <<>>

\* execute up to its loop: without a steps block it returns undefined at
\* once, otherwise the scope starts as {input}.
Execute(i) ==
    /\ wfStatus[i] = "idle"
    /\ IF workflow[i].hasSteps
       THEN /\ wfStatus' = [wfStatus EXCEPT ![i] = "running"]
            /\ scope' = [scope EXCEPT ![i] = [input |-> InputOf(i)]]
            /\ UNCHANGED wfResult
       ELSE /\ wfStatus' = [wfStatus EXCEPT ![i] = "returned"]
            /\ UNCHANGED <<scope, wfResult>>
    /\ UNCHANGED <<workflow, stepIdx, calls, auditLog, trace, notWorkflow>>

\* A loop that starts the next step without awaiting the previous call.
StepSettledNoAwait(i) == TRUE

\* The await on the step call in the loop body: the loop goes on only when
\* the call it started has settled.
StepSettled(i) == calls[i] = {}

\* A failure that is logged and swallowed: the step is bound to undefined
\* and the loop goes on.
ThrowSwallowed(i, name, err) ==
    /\ scope' = [scope EXCEPT ![i] = (name :> Undefined) @@ scope[i]]
    /\ UNCHANGED <<wfStatus, wfResult>>

\* An error raised by a step: the catch of execute logs and rethrows it, so
\* execute rejects with the error and the scope is dropped.
Throw(i, name, err) ==
    /\ wfStatus' = [wfStatus EXCEPT ![i] = "threw"]
    /\ wfResult' = [wfResult EXCEPT ![i] = err]
    /\ UNCHANGED scope

\* A loop that stores the value of a step that is no block invocation.
SkipStepEvaluated(i) ==
    /\ wfStatus[i] = "running"
    /\ StepSettled(i)
    /\ stepIdx[i] <= Len(Steps(i))
    /\ ~IsExecutable(Steps(i)[stepIdx[i]].value)
    /\ stepIdx' = [stepIdx EXCEPT ![i] = @ + 1]
    /\ scope' = [scope EXCEPT ![i] =
                    (Steps(i)[stepIdx[i]].key :>
                        evaluateExpression(Steps(i)[stepIdx[i]].value, scope[i])) @@ @]
    /\ UNCHANGED <<workflow, calls, wfStatus, wfResult, auditLog, trace, notWorkflow>>

\* A loop that raises on a step it does not recognize.
SkipStepThrows(i) ==
    /\ wfStatus[i] = "running"
    /\ StepSettled(i)
    /\ stepIdx[i] <= Len(Steps(i))
    /\ ~IsExecutable(Steps(i)[stepIdx[i]].value)
    /\ stepIdx' = [stepIdx EXCEPT ![i] = @ + 1]
    /\ wfStatus' = [wfStatus EXCEPT ![i] = "threw"]
    /\ wfResult' = [wfResult EXCEPT ![i] = Error("Error", "Unknown step type")]
    /\ UNCHANGED <<workflow, scope, calls, auditLog, trace, notWorkflow>>

\* A step attribute that is no block invocation, or is one of an unknown
\* type: nothing is executed or stored.
SkipStep(i) ==
    /\ wfStatus[i] = "running"
    /\ StepSettled(i)
    /\ stepIdx[i] <= Len(Steps(i))
    /\ ~IsExecutable(Steps(i)[stepIdx[i]].value)
    /\ stepIdx' = [stepIdx EXCEPT ![i] = @ + 1]
    /\ UNCHANGED <<workflow, scope, calls, wfStatus, wfResult, auditLog, trace, notWorkflow>>

StartedEvent(k, inputs) == [ev |-> "start", step |-> k, inputs |-> inputs]

SettledEvent(k, outcome) == [ev |-> "settle", step |-> k, outcome |-> outcome]

\* An executeTool that asks the runtime's PolicyEnforcer before the tool
\* lookup.
StartToolStepEnforced(i) ==
    LET k == stepIdx[i]
        attr == Steps(i)[k]
        expr == attr.value
    IN  /\ wfStatus[i] = "running"
        /\ StepSettled(i)
        /\ k <= Len(Steps(i))
        /\ IsExecutable(expr)
        /\ expr.type = "tool"
        /\ stepIdx' = [stepIdx EXCEPT ![i] = @ + 1]
        /\ IF "deny" \in DOMAIN policy[i] /\ checkToolAccess(policy[i], expr.identifier) # NoError
           THEN /\ Throw(i, attr.key, Error("PolicyError", "Policy violation"))
                /\ trace' = [trace EXCEPT ![i] =
                        Append(@, SettledEvent(k, Rejected(Error("PolicyError", "Policy violation"))))]
                /\ UNCHANGED <<calls, auditLog>>
           ELSE IF ~HasTool(expr.identifier)
           THEN /\ Throw(i, attr.key, Error("Error", "Tool not found"))
                /\ trace' = [trace EXCEPT ![i] =
                        Append(@, SettledEvent(k, Rejected(Error("Error", "Tool not found"))))]
                /\ UNCHANGED <<calls, auditLog>>
           ELSE LET toolDef == FindTool(expr.identifier)
                    inputs == EvaluateInputs(expr, scope[i])
                IN  IF InputInvalid(toolDef, inputs)
                    THEN /\ Throw(i, attr.key, Error("ValidationError", "exceeds maximum"))
                         /\ auditLog' = Append(auditLog,
                                ToolCallEvent(expr.identifier, FALSE, "exceeds maximum"))
                         /\ trace' = [trace EXCEPT ![i] = Append(@,
                                SettledEvent(k, Rejected(
                                    Error("ValidationError", "exceeds maximum"))))]
                         /\ UNCHANGED calls
                    ELSE /\ calls' = [calls EXCEPT ![i] = @ \cup
                                {[step |-> k, name |-> attr.key, kind |-> "tool",
                                  id |-> expr.identifier, handler |-> toolDef.handler,
                                  sandbox |-> toolDef.sandbox, inputs |-> inputs]}]
                         /\ trace' = [trace EXCEPT ![i] = Append(@, StartedEvent(k, inputs))]
                         /\ UNCHANGED <<scope, wfStatus, wfResult, auditLog>>
        /\ UNCHANGED <<workflow, notWorkflow>>

\* executeTool up to the call of the tool function: the tool lookup, the
\* evaluation of the inputs and the sandbox's input validation.
StartToolStep(i) ==
    LET k == stepIdx[i]
        attr == Steps(i)[k]
        expr == attr.value
    IN  /\ wfStatus[i] = "running"
        /\ StepSettled(i)
        /\ k <= Len(Steps(i))
        /\ IsExecutable(expr)
        /\ expr.type = "tool"
        /\ stepIdx' = [stepIdx EXCEPT ![i] = @ + 1]
        /\ IF ~HasTool(expr.identifier)
           THEN /\ Throw(i, attr.key, Error("Error", "Tool not found"))
                /\ trace' = [trace EXCEPT ![i] =
                        Append(@, SettledEvent(k, Rejected(Error("Error", "Tool not found"))))]
                /\ UNCHANGED <<calls, auditLog>>
           ELSE LET toolDef == FindTool(expr.identifier)
                    inputs == EvaluateInputs(expr, scope[i])
                IN  IF InputInvalid(toolDef, inputs)
                    THEN /\ Throw(i, attr.key, Error("ValidationError", "exceeds maximum"))
                         /\ auditLog' = Append(auditLog,
                                ToolCallEvent(expr.identifier, FALSE, "exceeds maximum"))
                         /\ trace' = [trace EXCEPT ![i] = Append(@,
                                SettledEvent(k, Rejected(
                                    Error("ValidationError", "exceeds maximum"))))]
                         /\ UNCHANGED calls
                    ELSE /\ calls' = [calls EXCEPT ![i] = @ \cup
                                {[step |-> k, name |-> attr.key, kind |-> "tool",
                                  id |-> expr.identifier, handler |-> toolDef.handler,
                                  sandbox |-> toolDef.sandbox, inputs |-> inputs]}]
                         /\ trace' = [trace EXCEPT ![i] = Append(@, StartedEvent(k, inputs))]
                         /\ UNCHANGED <<scope, wfStatus, wfResult, auditLog>>
        /\ UNCHANGED <<workflow, notWorkflow>>

\* executeAgent and executeCapability up to their call.
StartOtherStep(i) ==
    LET k == stepIdx[i]
        attr == Steps(i)[k]
        expr == attr.value
        inputs == EvaluateInputs(expr, scope[i])
    IN  /\ wfStatus[i] = "running"
        /\ StepSettled(i)
        /\ k <= Len(Steps(i))
        /\ IsExecutable(expr)
        /\ expr.type \in {"agent", "capability"}
        /\ stepIdx' = [stepIdx EXCEPT ![i] = @ + 1]
        /\ calls' = [calls EXCEPT ![i] = @ \cup
                {[step |-> k, name |-> attr.key, kind |-> expr.type,
                  id |-> expr.identifier, handler |-> "none",
                  sandbox |-> FALSE, inputs |-> inputs]}]
        /\ trace' = [trace EXCEPT ![i] = Append(@, StartedEvent(k, inputs))]
        /\ UNCHANGED <<workflow, scope, wfStatus, wfResult, auditLog, notWorkflow>>

\* An engine whose invocations share one scope object: a result is stored
\* under the step name in the scope of every invocation.
SettleStepSharedScope(i) ==
    \E c \in calls[i] : \E o \in Outcomes(c) :
        /\ wfStatus[i] = "running"
        /\ calls' = [calls EXCEPT ![i] = @ \ {c}]
        /\ trace' = [trace EXCEPT ![i] = Append(@, SettledEvent(c.step, o))]
        /\ auditLog' = IF c.kind = "tool"
                       THEN Append(auditLog,
                                ToolCallEvent(c.id, o.ok,
                                    IF o.ok THEN "" ELSE o.value.message))
                       ELSE auditLog
        /\ IF o.ok
           THEN /\ scope' = [j \in Invocations |-> (c.name :> o.value) @@ scope[j]]
                /\ UNCHANGED <<wfStatus, wfResult>>
           ELSE Throw(i, c.name, o.value)
        /\ UNCHANGED <<workflow, stepIdx, notWorkflow>>

\* The call of a step settles: its result is stored under the step name, or
\* its error aborts the workflow.  A tool call is audit-logged either way.
SettleStep(i) ==
    \E c \in calls[i] : \E o \in Outcomes(c) :
        /\ wfStatus[i] = "running"
        /\ calls' = [calls EXCEPT ![i] = @ \ {c}]
        /\ trace' = [trace EXCEPT ![i] = Append(@, SettledEvent(c.step, o))]
        /\ auditLog' = IF c.kind = "tool"
                       THEN Append(auditLog,
                                ToolCallEvent(c.id, o.ok,
                                    IF o.ok THEN "" ELSE o.value.message))
                       ELSE auditLog
        /\ IF o.ok
           THEN /\ scope' = [scope EXCEPT ![i] = (c.name :> o.value) @@ @]
                /\ UNCHANGED <<wfStatus, wfResult>>
           ELSE Throw(i, c.name, o.value)
        /\ UNCHANGED <<workflow, stepIdx, notWorkflow>>

\* The loop is over: execute returns the scope.
Return(i) ==
    /\ wfStatus[i] = "running"
    /\ StepSettled(i)
    /\ stepIdx[i] > Len(Steps(i))
    /\ wfStatus' = [wfStatus EXCEPT ![i] = "returned"]
    /\ wfResult' = [wfResult EXCEPT ![i] = Obj(scope[i])]
    /\ UNCHANGED <<workflow, scope, stepIdx, calls, auditLog, trace, notWorkflow>>

\* The step expressions of two workflows that run interleaved: a tool
\* with a literal input, tools that read the first step or the workflow's
\* input by reference, an agent that reads the first step, and a step
\* that is no block invocation.
EchoStep == BlockExpression("tool", "echo", <<Attribute("x", Literal(Num(10)))>>)

PassStep(path) == BlockExpression("tool", "pass", <<Attribute("x", Reference(path))>>)

AgentStep == BlockExpression("agent", "a1", <<Attribute("message", Reference(<<"s1">>))>>)

InterleavedWorkflows ==
    {[hasSteps |-> TRUE, steps |-> [k \in 1..Len(l) |-> Attribute(StepNames[k], l[k])]] :
        l \in {<<EchoStep, PassStep(<<"s1">>)>>,
                <<PassStep(<<"input", "n">>), PassStep(<<"s1", "data", "x">>)>>,
                <<EchoStep, AgentStep, PassStep(<<"s2">>)>>,
                <<EchoStep, Reference(<<"s1">>), PassStep(<<"s2">>)>>}}

\* Two invocations of execute, each on a workflow and an input of its own.
InterleavedInit ==
    /\ \E w \in [{1, 2} -> InterleavedWorkflows] :
        workflow = [i \in {1, 2} |->
                        [hasSteps |-> TRUE, steps |-> w[i].steps,
                         input |-> Obj([n |-> Num(5 + i)])]]
    /\ scope = [i \in {1, 2} |-> <<>>]
    /\ stepIdx = [i \in {1, 2} |-> 1]
    /\ calls = [i \in {1, 2} |-> {}]
    /\ wfStatus = [i \in {1, 2} |-> "idle"]
    /\ wfResult = [i \in {1, 2} |-> Undefined]
    /\ auditLog = <<>>
    /\ trace = [i \in {1, 2} |-> <<>>]

WorkflowNext ==
    \/ \E i \in Invocations : Execute(i)
    \/ \E i \in Invocations : SkipStep(i)
    \/ \E i \in Invocations : StartToolStep(i)
    \/ \E i \in Invocations : StartOtherStep(i)
    \/ \E i \in Invocations : SettleStep(i)
    \/ \E i \in Invocations : Return(i)

(***************************************************************************)
(* Expression evaluation (src/src/workflow.ts, evaluateExpression)         *)
(***************************************************************************)

\* Most elements of a generated list expression and most properties of a
\* generated map expression.
MaxElements == 2

\* Expressions without subexpressions: a literal, references whose path has
\* 0 to 3 segments, a block invocation and an expression of a kind that
\* evaluateExpression does not know.
EvalAtoms ==
    {Literal(Num(1)),
     Reference(<<>>), Reference(<<"a">>), Reference(<<"a", "b">>),
     Reference(<<"a", "b", "c">>), Reference(<<"z", "b">>),
     BlockExpression("tool", "echo", <<>>),
     [kind |-> "Binary"]}

\* Sequences of at most n values of a set.
SeqsUpTo(S, n) == UNION {[1..m -> S] : m \in 0..n}

\* The expressions handed to evaluateExpression: the atoms, the lists and
\* maps of atoms, and lists and maps that hold a list or a map.
EvalInner ==
    {ListExpression(<<Reference(<<"a", "b">>), Literal(Num(1))>>),
     MapExpression(<<Attribute("k", Reference(<<"a", "b">>))>>)}

EvalExprs ==
    EvalAtoms \cup EvalInner
    \cup {ListExpression(l) : l \in SeqsUpTo(EvalAtoms, MaxElements)}
    \cup {MapExpression([i \in 1..Len(l) |-> Attribute(ks[i], l[i])]) :
            l \in SeqsUpTo(EvalAtoms, MaxElements),
            ks \in {<<"k", "m">>, <<"m", "k">>, <<"k", "k">>}}
    \cup {ListExpression(<<e, Reference(<<"a">>)>>) : e \in EvalInner}
    \cup {MapExpression(<<Attribute("k", e)>>) : e \in EvalInner}

\* The scope objects handed to evaluateExpression.
EvalScopes ==
    {<<>>,
     [a |-> Obj([b |-> Num(5)])],
     [a |-> Obj(<<>>)],
     [a |-> Num(5)],
     [a |-> Null],
     [a |-> Obj([b |-> Obj([c |-> Num(1)])]), z |-> Undefined]}

NotEvaluated == [done |-> FALSE, value |-> Undefined, before |-> <<>>]

EvalInit ==
    /\ evalExpr \in EvalExprs
    /\ evalScope \in EvalScopes
    /\ evalResult = NotEvaluated

EvalIdle ==
    /\ evalExpr = Literal(Undefined)
    /\ evalScope = <<>>
    /\ evalResult = NotEvaluated

\* One call of evaluateExpression(expr, scope): it assigns to nothing but
\* its locals.  `before` remembers the scope the call was made with.
Evaluate ==
    /\ ~evalResult.done
    /\ evalResult' = [done |-> TRUE,
                      value |-> evaluateExpression(evalExpr, evalScope),
                      before |-> evalScope]
    /\ UNCHANGED <<evalExpr, evalScope, notEval>>

EvalNext == Evaluate

(***************************************************************************)
(* Model Gateway (src/src/gateway/gateway.ts, src/unnamed/part_001)        *)
(***************************************************************************)

\* Most complete() calls made on one gateway.
MaxCalls == 3

\* The `providers` the gateway is constructed with, in declaration order.
\* `apiKey` says whether the credential reference resolves; `vendor` is what
\* the name or id of an llm provider contains; `limits` whether rate limits
\* are declared.
IRProviders == <<
    [id |-> "A", apiKey |-> TRUE, type |-> "llm", vendor |-> "openai", limits |-> TRUE],
    [id |-> "bad", apiKey |-> FALSE, type |-> "llm", vendor |-> "openai", limits |-> FALSE],
    [id |-> "B", apiKey |-> TRUE, type |-> "llm", vendor |-> "anthropic", limits |-> FALSE] >>

\* Every provider id a model configuration of the model names.
ProviderIds == {"A", "B", "bad", "X"}

\* createProvider returns an adapter (rather than throwing).
CanCreateProvider(config) ==
    /\ config.apiKey
    /\ config.type = "llm"
    /\ config.vendor \in {"openai", "anthropic"}

ZeroStats == [requests |-> 0, tokens |-> 0, errors |-> 0]

\* A ModelProviderConfig: `provider` is the reference split at its dots.
ModelProvider(ref, name) == [provider |-> ref, name |-> name]

cA == ModelProvider(<<"provider", "A">>, "gpt-4")

cA2 == ModelProvider(<<"provider", "A">>, "gpt-3.5-turbo")

cB == ModelProvider(<<"B">>, "claude-3-haiku")

cX == ModelProvider(<<"provider", "X">>, "local-model")

\* The candidate lists [primary, ...fallback] of the model configurations.
CandidateLists == {
    <<cA, cB>>,
    <<cA, cB, cA2>>,
    <<cX, cB>>,
    <<cB, cX>>,
    <<cA>> }

\* modelConfig.strategy: a known name, "" when absent, or an unknown name.
Strategies ==
    {"failover", "cost_optimized", "latency_optimized", "round_robin", "", "fastest"}

\* The modelConfig arguments of complete: an advanced configuration, or a
\* plain "providerId/modelName" string (here already split at the slash).
ModelConfigs ==
    [simple : {FALSE}, strategy : Strategies, candidates : CandidateLists]
    \cup { [simple |-> TRUE, strategy |-> "", candidates |-> <<ModelProvider(<<"A">>, "gpt-4")>>],
           [simple |-> TRUE, strategy |-> "", candidates |-> <<ModelProvider(<<"X">>, "local-model")>>] }

\* Most complete() calls made on a gateway whose calls run two at a time.
MaxConcurrentCalls == 2

\* The configurations of the calls that run two at a time.
ConcurrentConfigs ==
    [simple : {FALSE}, strategy : {"failover", "cost_optimized", "round_robin"},
     candidates : {<<cA, cB>>, <<cX, cA>>}]
    \cup { [simple |-> TRUE, strategy |-> "", candidates |-> <<ModelProvider(<<"A">>, "gpt-4")>>] }

\* extractProviderId: the last part of the dotted reference.
extractProviderId(providerRef) == providerRef[Len(providerRef)]

\* The substrings of a model name that estimateCost looks for.
NameIncludes(name, part) ==
    CASE name = "gpt-4" -> part = "gpt-4"
      [] name = "gpt-3.5-turbo" -> part = "gpt-3.5"
      [] name = "claude-3-haiku" -> part = "claude-3-haiku"
      [] OTHER -> FALSE

estimateCost(modelName) ==
    IF NameIncludes(modelName, "gpt-4") THEN 100
    ELSE IF NameIncludes(modelName, "gpt-3.5") THEN 10
    ELSE IF NameIncludes(modelName, "claude-3-opus") THEN 100
    ELSE IF NameIncludes(modelName, "claude-3-sonnet") THEN 50
    ELSE IF NameIncludes(modelName, "claude-3-haiku") THEN 10
    ELSE 50

\* An insertion that puts a candidate before the candidates of equal cost.
RECURSIVE InsertByCostUnstable(_, _)
InsertByCostUnstable(sorted, x) ==
    IF sorted = <<>> THEN <<x>>
    ELSE IF estimateCost(sorted[Len(sorted)].name) < estimateCost(x.name)
         THEN Append(sorted, x)
         ELSE Append(InsertByCostUnstable(SubSeq(sorted, 1, Len(sorted) - 1), x),
                     sorted[Len(sorted)])

\* [...providers].sort by estimateCost: a stable ascending sort.
RECURSIVE InsertByCost(_, _)
InsertByCost(sorted, x) ==
    IF sorted = <<>> THEN <<x>>
    ELSE IF estimateCost(sorted[Len(sorted)].name) <= estimateCost(x.name)
         THEN Append(sorted, x)
         ELSE Append(InsertByCost(SubSeq(sorted, 1, Len(sorted) - 1), x),
                     sorted[Len(sorted)])

RECURSIVE SortByCost(_)
SortByCost(providers) ==
    IF providers = <<>> THEN <<>>
    ELSE InsertByCost(SortByCost(SubSeq(providers, 1, Len(providers) - 1)),
                      providers[Len(providers)])

Reverse(providers) == [k \in 1..Len(providers) |-> providers[Len(providers) + 1 - k]]

\* A failover loop that walks the candidates from the last to the first.
FailoverOrderReversed(providers) == Reverse(providers)

\* The order in which failoverStrategy walks the list it is given.
FailoverOrder(providers) == providers

\* Which strategy function completeWithStrategy dispatches to.
IsRoundRobin(strategy) == strategy = "round_robin"

\* A dispatch in which latency_optimized walks the candidates backwards.
StrategyOrderLatencyReversed(strategy, providers) ==
    IF strategy = "cost_optimized" THEN FailoverOrder(SortByCost(providers))
    ELSE IF strategy = "latency_optimized" THEN FailoverOrder(Reverse(providers))
    ELSE FailoverOrder(providers)

\* The list the strategy iterates.
StrategyOrder(strategy, providers) ==
    IF strategy = "cost_optimized"
    THEN FailoverOrder(SortByCost(providers))
    ELSE FailoverOrder(providers)

RECURSIVE SumRequests(_, _)
SumRequests(stats, ids) ==
    IF ids = {} THEN 0
    ELSE LET p == CHOOSE q \in ids : TRUE
         IN  stats[p].requests + SumRequests(stats, ids \ {p})

\* A total that counts only the providers of the candidate list.
TotalRequestsOfCandidates(stats, providers) ==
    SumRequests(stats,
        (DOMAIN stats) \cap {extractProviderId(providers[k].provider) : k \in 1..Len(providers)})

\* roundRobinStrategy: the sum of requests over every usageStats record.
TotalRequests(stats, providers) == SumRequests(stats, DOMAIN stats)

\* An index that counts the request being routed.
RoundRobinIndexCountingThisCall(totalRequests, n) == (totalRequests + 1) % n

\* An index that advances with every call made, counted or not.
RoundRobinIndexByCalls(totalRequests, n) == issued % n

\* roundRobinStrategy: index = totalRequests % providers.length (0-based).
RoundRobinIndex(totalRequests, n) == totalRequests % n

\* The errors of the gateway, by message.
NotFoundError(providerId) == [error |-> "Provider not found", provider |-> providerId]

AdapterError(providerId) == [error |-> "API error", provider |-> providerId]

AllFailedError(lastError) == [error |-> "All providers failed", last |-> lastError]

NoGwError == [error |-> "none"]

\* What an adapter can answer: a response with or without usage.
AdapterResponses(providerId, modelName) ==
    {[provider |-> providerId, model |-> modelName, usage |-> u] :
        u \in {[present |-> FALSE, total_tokens |-> 0],
               [present |-> TRUE, total_tokens |-> 3]}}

NoResponse == [provider |-> "none"]

\* The complete() calls of a specification are the domain of gwCalls.
GatewayCalls == DOMAIN gwCalls

StatsOf(stats, providerId) ==
    IF providerId \in DOMAIN stats THEN stats[providerId] ELSE ZeroStats

IdleCall ==
    [status |-> "idle", simple |-> FALSE, strategy |-> "", candidates |-> <<>>,
     order |-> <<>>, idx |-> 0, phase |-> "none", pending |-> NoGwError,
     lastError |-> NoGwError, response |-> NoResponse, error |-> NoGwError,
     tried |-> <<>>, snaps |-> <<>>, selected |-> -1,
     before |-> [p \in ProviderIds |-> ZeroStats]]

GatewayInitFor(ids) ==
    /\ providerConfigs = IRProviders
    /\ initIdx = 1
    /\ registry = {}
    /\ rateLimiters = <<>>
    /\ usageStats = <<>>
    /\ gwCalls = [c \in ids |-> IdleCall]
    /\ issued = 0
    /\ adapterOk = [p \in ProviderIds |-> 0]

GatewayInit == GatewayInitFor({1})

\* A gateway on which two complete() calls can be in progress at once.
ConcurrentInit == GatewayInitFor({1, 2})

GatewayIdle ==
    /\ providerConfigs = <<>>
    /\ initIdx = 1
    /\ registry = {}
    /\ rateLimiters = <<>>
    /\ usageStats = <<>>
    /\ gwCalls = <<>>
    /\ issued = 0
    /\ adapterOk = [p \in ProviderIds |-> 0]

\* A setup that gives every registered provider a limiter.
SetupRateLimiterAlways(limiters, config) == (config.id :> 0) @@ limiters

\* if (providerConfig.limits) this.rateLimiters.set(id, new RateLimiter(limits))
SetupRateLimiter(limiters, config) ==
    IF config.limits THEN (config.id :> 0) @@ limiters ELSE limiters

\* An initialization that gives up at the first provider that fails.
AfterProviderAbortOnFailure(idx, n, created) == IF created THEN idx + 1 ELSE n + 1

\* The loop of initializeProviders goes on to the next provider, whether the
\* body registered the provider or caught its error.
AfterProvider(idx, n, created) == idx + 1

\* One iteration of initializeProviders: the provider is created and
\* registered with its limiter and counters, or its failure is logged and
\* the loop goes on.
InitProvider ==
    /\ initIdx <= Len(providerConfigs)
    /\ LET config == providerConfigs[initIdx]
       IN  IF CanCreateProvider(config)
           THEN /\ registry' = registry \cup {config.id}
                /\ rateLimiters' = SetupRateLimiter(rateLimiters, config)
                /\ usageStats' = (config.id :> ZeroStats) @@ usageStats
           ELSE UNCHANGED <<registry, rateLimiters, usageStats>>
    /\ initIdx' = AfterProvider(initIdx, Len(providerConfigs),
                                 CanCreateProvider(providerConfigs[initIdx]))
    /\ UNCHANGED <<providerConfigs, gwCalls, issued, adapterOk, notGateway>>

\* A completeWithProvider that counts every request twice.
IncRequestsTwice(stats, providerId) == [stats EXCEPT ![providerId].requests = @ + 2]

\* A completeWithProvider that does not count errors.
IncErrorsMissing(stats, providerId) == stats

IncRequests(stats, providerId) == [stats EXCEPT ![providerId].requests = @ + 1]

\* A catch that counts the error of a failed request twice.
IncErrorsTwice(stats, providerId) == [stats EXCEPT ![providerId].errors = @ + 2]

IncErrors(stats, providerId) == [stats EXCEPT ![providerId].errors = @ + 1]

AddTokens(stats, providerId, response) ==
    IF response.usage.present
    THEN [stats EXCEPT ![providerId].tokens = @ + response.usage.total_tokens]
    ELSE stats

\* A catch that keeps the first error instead of the last.
LastErrorKeepsFirst(previous, error) ==
    IF previous = NoGwError THEN error ELSE previous

\* failoverStrategy's catch: lastError = error.
LastError(previous, error) == error

TriedEntry(k, providerId, modelName, outcome) ==
    [idx |-> k, provider |-> providerId, name |-> modelName, outcome |-> outcome]

SetOutcome(tried, outcome) == [tried EXCEPT ![Len(tried)].outcome = outcome]

CurrentProvider(c) == extractProviderId(gwCalls[c].order[gwCalls[c].idx].provider)

\* The counters and the permits granted for a provider at the entry of
\* completeWithProvider (history); -1 permits for a provider without limiter.
Snapshot(pid) ==
    [stats |-> StatsOf(usageStats, pid),
     permits |-> IF pid \in DOMAIN rateLimiters THEN rateLimiters[pid] ELSE -1]

\* A completeWithProvider that counts the request before it looks the
\* provider up.
EnterProviderCountsFirst(c, rec, k) ==
    LET cand == rec.order[k]
        pid == extractProviderId(cand.provider)
        at(phase, outcome) ==
            [rec EXCEPT !.idx = k, !.phase = phase,
                        !.tried = Append(@, TriedEntry(k, pid, cand.name, outcome)),
                        !.snaps = Append(@, Snapshot(pid))]
    IN  IF pid \notin registry
        THEN /\ gwCalls' = [gwCalls EXCEPT ![c] =
                    [at("rejected", "notfound") EXCEPT !.pending = NotFoundError(pid)]]
             /\ usageStats' = (pid :> [ZeroStats EXCEPT !.requests = 1]) @@ usageStats
             /\ UNCHANGED rateLimiters
        ELSE IF pid \in DOMAIN rateLimiters
        THEN /\ UNCHANGED usageStats
             /\ \/ /\ rateLimiters' = [rateLimiters EXCEPT ![pid] = @ + 1]
                   /\ gwCalls' = [gwCalls EXCEPT ![c] = at("acquired", "acquiring")]
                \/ /\ UNCHANGED rateLimiters
                   /\ gwCalls' = [gwCalls EXCEPT ![c] = at("waiting", "acquiring")]
        ELSE /\ usageStats' = IncRequests(usageStats, pid)
             /\ gwCalls' = [gwCalls EXCEPT ![c] = at("calling", "invoked")]
             /\ UNCHANGED rateLimiters

\* completeWithProvider from its entry to its first suspension, for the
\* candidate at position k of the list the call `rec` walks: the lookup fails,
\* or the limiter is asked for a permit (granted at once or after a wait), or,
\* without limiter, the request is counted and the adapter invoked.
EnterProvider(c, rec, k) ==
    LET cand == rec.order[k]
        pid == extractProviderId(cand.provider)
        at(phase, outcome) ==
            [rec EXCEPT !.idx = k, !.phase = phase,
                        !.tried = Append(@, TriedEntry(k, pid, cand.name, outcome)),
                        !.snaps = Append(@, Snapshot(pid))]
    IN  IF pid \notin registry
        THEN /\ gwCalls' = [gwCalls EXCEPT ![c] =
                    [at("rejected", "notfound") EXCEPT !.pending = NotFoundError(pid)]]
             /\ UNCHANGED <<usageStats, rateLimiters>>
        ELSE IF pid \in DOMAIN rateLimiters
        THEN /\ UNCHANGED usageStats
             /\ \/ /\ rateLimiters' = [rateLimiters EXCEPT ![pid] = @ + 1]
                   /\ gwCalls' = [gwCalls EXCEPT ![c] = at("acquired", "acquiring")]
                \/ /\ UNCHANGED rateLimiters
                   /\ gwCalls' = [gwCalls EXCEPT ![c] = at("waiting", "acquiring")]
        ELSE /\ usageStats' = IncRequests(usageStats, pid)
             /\ gwCalls' = [gwCalls EXCEPT ![c] = at("calling", "invoked")]
             /\ UNCHANGED rateLimiters

\* The calls a specification makes and the configurations they draw from:
\* fewer when two calls can be in progress at once.
CallBudget == IF Cardinality(GatewayCalls) > 1 THEN MaxConcurrentCalls ELSE MaxCalls

CallConfigs == IF Cardinality(GatewayCalls) > 1 THEN ConcurrentConfigs ELSE ModelConfigs

\* complete, completeWithStrategy and the strategy function up to the first
\* suspension: the strategy picks the list to walk (or, for round_robin, the
\* one candidate) and enters completeWithProvider for the first candidate.
Complete(c) ==
    /\ gwCalls[c].status \in {"idle", "returned", "threw"}
    /\ issued < CallBudget
    /\ \E cfg \in CallConfigs :
        LET providers == cfg.candidates
            rr == ~cfg.simple /\ IsRoundRobin(cfg.strategy)
            index == RoundRobinIndex(TotalRequests(usageStats, providers), Len(providers))
            rec == [IdleCall EXCEPT
                        !.status = "running",
                        !.simple = cfg.simple,
                        !.strategy = cfg.strategy,
                        !.candidates = providers,
                        !.order = IF cfg.simple \/ rr THEN providers
                                  ELSE StrategyOrder(cfg.strategy, providers),
                        !.selected = IF rr THEN index ELSE -1,
                        !.before = [p \in ProviderIds |-> StatsOf(usageStats, p)]]
        IN  EnterProvider(c, rec, IF rr THEN index + 1 ELSE 1)
    /\ issued' = issued + 1
    /\ UNCHANGED <<providerConfigs, initIdx, registry, adapterOk, notGateway>>

\* The limiter's wait is over: acquire takes its permit and returns.
AcquireWake(c) ==
    /\ gwCalls[c].status = "running"
    /\ gwCalls[c].phase = "waiting"
    /\ rateLimiters' = [rateLimiters EXCEPT ![CurrentProvider(c)] = @ + 1]
    /\ gwCalls' = [gwCalls EXCEPT ![c].phase = "acquired"]
    /\ UNCHANGED <<providerConfigs, initIdx, registry, usageStats, issued, adapterOk, notGateway>>

\* completeWithProvider after the permit: stats.requests++ and the adapter
\* is invoked.
Invoke(c) ==
    /\ gwCalls[c].status = "running"
    /\ gwCalls[c].phase = "acquired"
    /\ usageStats' = IncRequests(usageStats, CurrentProvider(c))
    /\ gwCalls' = [gwCalls EXCEPT ![c].phase = "calling",
                                  ![c].tried = SetOutcome(@, "invoked")]
    /\ UNCHANGED <<providerConfigs, initIdx, registry, rateLimiters, issued, adapterOk, notGateway>>

\* The adapter answers: the token usage is accumulated and the response is
\* returned through the strategy to the caller of complete.
AdapterResolve(c) ==
    /\ gwCalls[c].status = "running"
    /\ gwCalls[c].phase = "calling"
    /\ \E response \in AdapterResponses(CurrentProvider(c),
                                        gwCalls[c].order[gwCalls[c].idx].name) :
        /\ usageStats' = AddTokens(usageStats, CurrentProvider(c), response)
        /\ gwCalls' = [gwCalls EXCEPT ![c].status = "returned",
                                      ![c].phase = "none",
                                      ![c].response = response,
                                      ![c].tried = SetOutcome(@, "ok")]
    /\ adapterOk' = [adapterOk EXCEPT ![CurrentProvider(c)] = @ + 1]
    /\ UNCHANGED <<providerConfigs, initIdx, registry, rateLimiters, issued, notGateway>>

\* The adapter fails: stats.errors++ and the error is rethrown unchanged.
AdapterReject(c) ==
    /\ gwCalls[c].status = "running"
    /\ gwCalls[c].phase = "calling"
    /\ usageStats' = IncErrors(usageStats, CurrentProvider(c))
    /\ gwCalls' = [gwCalls EXCEPT ![c].phase = "rejected",
                                  ![c].pending = AdapterError(CurrentProvider(c)),
                                  ![c].tried = SetOutcome(@, "failed")]
    /\ UNCHANGED <<providerConfigs, initIdx, registry, rateLimiters, issued, adapterOk, notGateway>>

\* A round_robin that, like failover, goes on to the next candidate.
RethrowsToCallerSimpleOnly(call) == call.simple

\* The callers of completeWithProvider without a catch: complete's simple
\* path and roundRobinStrategy return its promise as it is.
RethrowsToCaller(call) == call.simple \/ IsRoundRobin(call.strategy)

\* The rejection of completeWithProvider reaches the strategy: the simple
\* path and round_robin let it through to the caller; failoverStrategy
\* catches it, remembers it and enters the next candidate, or throws the
\* aggregate error after the last one.
Propagate(c) ==
    LET call == gwCalls[c] IN
    /\ call.status = "running"
    /\ call.phase = "rejected"
    /\ IF RethrowsToCaller(call)
       THEN /\ gwCalls' = [gwCalls EXCEPT ![c].status = "threw",
                                          ![c].phase = "none",
                                          ![c].error = call.pending]
            /\ UNCHANGED <<usageStats, rateLimiters>>
       ELSE LET caught == [call EXCEPT !.lastError = LastError(@, call.pending),
                                       !.pending = NoGwError]
            IN  IF call.idx < Len(call.order)
                THEN EnterProvider(c, caught, call.idx + 1)
                ELSE /\ gwCalls' = [gwCalls EXCEPT ![c] =
                            [caught EXCEPT !.status = "threw", !.phase = "none",
                                           !.error = AllFailedError(caught.lastError)]]
                     /\ UNCHANGED <<usageStats, rateLimiters>>
    /\ UNCHANGED <<providerConfigs, initIdx, registry, issued, adapterOk, notGateway>>

\* Longest `providers` array of a generated gateway.
MaxProviders == 3

\* The provider declarations a generated `providers` array draws from: two
\* that can be created, one whose credential does not resolve, one of a
\* type other than llm and one llm of an unknown vendor.
ProviderDecls == {
    [id |-> "A", apiKey |-> TRUE, type |-> "llm", vendor |-> "openai", limits |-> TRUE],
    [id |-> "B", apiKey |-> TRUE, type |-> "llm", vendor |-> "anthropic", limits |-> FALSE],
    [id |-> "bad", apiKey |-> FALSE, type |-> "llm", vendor |-> "openai", limits |-> FALSE],
    [id |-> "tool", apiKey |-> TRUE, type |-> "tool", vendor |-> "openai", limits |-> TRUE],
    [id |-> "X", apiKey |-> TRUE, type |-> "llm", vendor |-> "local", limits |-> FALSE] }

\* The arrays of at most MaxProviders declarations with distinct ids.
ProviderLists ==
    UNION { {l \in [1..n -> ProviderDecls] :
                \A j, k \in 1..n : j # k => l[j].id # l[k].id} : n \in 0..MaxProviders }

\* A gateway constructed with any of the arrays, on which no call is made.
GatewayConstructed ==
    /\ providerConfigs \in ProviderLists
    /\ initIdx = 1
    /\ registry = {}
    /\ rateLimiters = <<>>
    /\ usageStats = <<>>
    /\ gwCalls = <<>>
    /\ issued = 0
    /\ adapterOk = [p \in ProviderIds |-> 0]

InitializeNext == InitProvider

GatewayNext ==
    \/ InitProvider
    \/ \E c \in GatewayCalls : Complete(c)
    \/ \E c \in GatewayCalls : AcquireWake(c)
    \/ \E c \in GatewayCalls : Invoke(c)
    \/ \E c \in GatewayCalls : AdapterResolve(c)
    \/ \E c \in GatewayCalls : AdapterReject(c)
    \/ \E c \in GatewayCalls : Propagate(c)

(***************************************************************************)
(* Credential resolution (src/src/gateway/gateway.ts, createProvider)      *)
(***************************************************************************)

\* Most entries of a generated credential block.
MaxCredentials == 3

\* The values of a credential block: a reference of type env or secrets
\* that the resolver resolves to a value or to undefined, a reference of
\* another type, and an object that has no `type` or no `ref`.
CredentialValues ==
    [kind : {"env", "secrets"}, resolves : BOOLEAN]
    \cup {[kind |-> "vault", resolves |-> FALSE], [kind |-> "malformed", resolves |-> FALSE]}

\* config.credentials: absent, one CredentialReference, or a CredentialBlock
\* with its entries in property order.
NoCredentials == [form |-> "none", entries |-> <<>>]

CredentialConfigs ==
    {NoCredentials}
    \cup {[form |-> "reference", entries |-> <<v>>] :
            v \in {w \in CredentialValues : w.kind # "malformed"}}
    \cup {[form |-> "block", entries |-> l] :
            l \in UNION {[1..n -> CredentialValues] : n \in 0..MaxCredentials}}

\* credentialResolver.getEnv / getSecret for the k-th entry: the secret of
\* that entry, written k, or undefined, written 0.  A reference of another
\* type leaves apiKey undefined.
ResolveReference(v, k) ==
    IF v.kind \in {"env", "secrets"} /\ v.resolves THEN k ELSE 0

\* 'type' in credRef && 'ref' in credRef
IsReference(v) == v.kind # "malformed"

\* A loop over the block that goes on until an entry resolves to a value.
RECURSIVE ResolveBlockFirstResolvable(_, _)
ResolveBlockFirstResolvable(entries, k) ==
    IF k > Len(entries) THEN 0
    ELSE IF IsReference(entries[k]) /\ ResolveReference(entries[k], k) # 0
         THEN ResolveReference(entries[k], k)
         ELSE ResolveBlockFirstResolvable(entries, k + 1)

\* The loop over the entries of a CredentialBlock from entry k on: the
\* first entry that is a reference is resolved, then the loop breaks.
RECURSIVE ResolveBlock(_, _)
ResolveBlock(entries, k) ==
    IF k > Len(entries) THEN 0
    ELSE IF IsReference(entries[k])
         THEN ResolveReference(entries[k], k)
         ELSE ResolveBlock(entries, k + 1)

\* The apiKey of createProvider after its credential resolution.
ResolveApiKey(creds) ==
    CASE creds.form = "none" -> 0
      [] creds.form = "reference" -> ResolveReference(creds.entries[1], 1)
      [] creds.form = "block" -> ResolveBlock(creds.entries, 1)

NotResolved == [done |-> FALSE, apiKey |-> 0, thrown |-> FALSE]

CredInit ==
    /\ credentials \in CredentialConfigs
    /\ credResult = NotResolved

CredIdle ==
    /\ credentials = NoCredentials
    /\ credResult = NotResolved

\* createProvider up to its provider switch: the credentials are resolved
\* and an apiKey that is undefined throws "No credentials found".
ResolveCredentials ==
    /\ ~credResult.done
    /\ credResult' = [done |-> TRUE,
                      apiKey |-> ResolveApiKey(credentials),
                      thrown |-> ResolveApiKey(credentials) = 0]
    /\ UNCHANGED <<credentials, notCred>>

CredNext == ResolveCredentials

(***************************************************************************)
(* Rate Limiter (src/unnamed/part_001)                                     *)
(***************************************************************************)

\* Largest maxTokens of a generated limiter.
MaxCapacity == 2

\* Most acquire() calls made on the limiter.
MaxAcquires == 4

\* The clock stops advancing at this time (ms).
MaxNow == 2000

\* The amounts of time (ms) that pass between two steps of the callers.
ClockSteps == {500, 1000}

\* The 60000 ms of a minute.  Token counts are kept in units of 1/60000
\* token, so that (elapsed / 60000) * requests_per_minute is the integer
\* elapsed * requests_per_minute and one token is 60000 units.
MsPerMinute == 60000

\* getWaitTime without requests_per_minute.
DefaultWaitMs == 1000

\* limits.requests_per_minute; 0 stands for absent (both are falsy).
RequestsPerMinute == {0, 60, 120}

Min(a, b) == IF a <= b THEN a ELSE b

\* new RateLimiter(limits, maxTokens) constructed at time t.
RateLimiter(limits, maxTokens, t) ==
    [limits |-> limits, maxTokens |-> maxTokens,
     tokens |-> maxTokens * MsPerMinute, lastRefill |-> t]

\* A refill that does not cap the bucket at maxTokens.
refillUncapped(l, t) ==
    IF l.limits.requests_per_minute # 0
    THEN [l EXCEPT !.tokens = @ + (t - l.lastRefill) * l.limits.requests_per_minute,
                   !.lastRefill = t]
    ELSE l

\* refill at time t.
refill(l, t) ==
    IF l.limits.requests_per_minute # 0
    THEN [l EXCEPT !.tokens = Min(l.maxTokens * MsPerMinute,
                                  @ + (t - l.lastRefill) * l.limits.requests_per_minute),
                   !.lastRefill = t]
    ELSE l

\* A wait of one second whatever the configured rate.
getWaitTimeFixed(l) == DefaultWaitMs

getWaitTime(l) ==
    IF l.limits.requests_per_minute # 0
    THEN MsPerMinute \div l.limits.requests_per_minute
    ELSE DefaultWaitMs

\* this.tokens < 1
Exhausted(l) == l.tokens < MsPerMinute

\* A decrement that leaves an exhausted bucket alone.
TakeTokenIfAny(l) ==
    IF l.tokens < MsPerMinute THEN l ELSE [l EXCEPT !.tokens = @ - MsPerMinute]

\* this.tokens--
TakeToken(l) == [l EXCEPT !.tokens = @ - MsPerMinute]

\* The callers of acquire() of a specification are the domain of acq.
Acquirers == DOMAIN acq

IdleAcquirer == [pc |-> "idle", wakeAt |-> 0, entry |-> 0]

AcquireEntry(p, at, suspended, wait, returned) ==
    [caller |-> p, at |-> at, suspended |-> suspended, wait |-> wait,
     returned |-> returned]

LimiterInitFor(ids) ==
    /\ now = 0
    /\ limiter \in {RateLimiter([requests_per_minute |-> r], m, 0) :
                        r \in RequestsPerMinute, m \in 1..MaxCapacity}
    /\ acq = [p \in ids |-> IdleAcquirer]
    /\ acqLog = <<>>

LimiterInit == LimiterInitFor({1, 2})

LimiterIdle ==
    /\ now = 0
    /\ limiter = RateLimiter([requests_per_minute |-> 0], 0, 0)
    /\ acq = <<>>
    /\ acqLog = <<>>

\* acquire() up to its return or its suspension: refill, and either a token
\* is there and is taken, or the caller starts its wait.
Acquire(p) ==
    /\ acq[p].pc = "idle"
    /\ Len(acqLog) < MaxAcquires
    /\ LET l == refill(limiter, now) IN
       IF Exhausted(l)
       THEN /\ limiter' = l
            /\ acq' = [acq EXCEPT ![p] = [pc |-> "waiting",
                                          wakeAt |-> now + getWaitTime(l),
                                          entry |-> Len(acqLog) + 1]]
            /\ acqLog' = Append(acqLog, AcquireEntry(p, now, TRUE, getWaitTime(l), -1))
       ELSE /\ limiter' = TakeToken(l)
            /\ acqLog' = Append(acqLog, AcquireEntry(p, now, FALSE, 0, now))
            /\ UNCHANGED acq
    /\ UNCHANGED <<now, notLimiter>>

\* An acquire() that checks the bucket again after its wait, and waits
\* again while the bucket is below one token.
AcquireResumeRechecks(p) ==
    /\ acq[p].pc = "waiting"
    /\ now >= acq[p].wakeAt
    /\ LET l == refill(limiter, now) IN
       IF Exhausted(l)
       THEN /\ limiter' = l
            /\ acq' = [acq EXCEPT ![p].wakeAt = now + getWaitTime(l)]
            /\ UNCHANGED acqLog
       ELSE /\ limiter' = TakeToken(l)
            /\ acq' = [acq EXCEPT ![p] = IdleAcquirer]
            /\ acqLog' = [acqLog EXCEPT ![acq[p].entry].returned = now]
    /\ UNCHANGED <<now, notLimiter>>

\* The timer of a suspended acquire() has fired: refill again, then take a
\* token whatever the count is, and return.
AcquireResume(p) ==
    /\ acq[p].pc = "waiting"
    /\ now >= acq[p].wakeAt
    /\ limiter' = TakeToken(refill(limiter, now))
    /\ acq' = [acq EXCEPT ![p] = IdleAcquirer]
    /\ acqLog' = [acqLog EXCEPT ![acq[p].entry].returned = now]
    /\ UNCHANGED <<now, notLimiter>>

\* Time passes.
Tick ==
    /\ \E d \in ClockSteps :
        /\ now + d <= MaxNow
        /\ now' = now + d
    /\ UNCHANGED <<limiterVars, notLimiter>>

\* The rates of a limiter whose callers come one after another: 60 and 120,
\* whose wait 60000 / rate is a whole number of milliseconds, and 90,
\* whose wait of 666.67 ms makes a timer of 666 ms (the delay of a timer is
\* truncated to an integer).
SequentialRates == {60, 90, 120}

\* The instants (ms) at which the clock of that limiter is observed.
SequentialTimes == {333, 500, 666, 667, 1000, 1332, 1333, 1500, 1998, 2000}

\* A limiter with requests_per_minute configured and one caller, whose
\* acquire() calls are therefore made strictly one after another.
SequentialInit ==
    /\ now = 0
    /\ limiter \in {RateLimiter([requests_per_minute |-> r], m, 0) :
                        r \in SequentialRates, m \in 1..MaxCapacity}
    /\ acq = [p \in {1} |-> IdleAcquirer]
    /\ acqLog = <<>>

\* Time passes.
SequentialTick ==
    /\ \E t \in SequentialTimes :
        /\ t > now
        /\ now' = t
    /\ UNCHANGED <<limiterVars, notLimiter>>

SequentialNext ==
    \/ Acquire(1)
    \/ AcquireResume(1)
    \/ SequentialTick

LimiterNext ==
    \/ \E p \in Acquirers : Acquire(p)
    \/ \E p \in Acquirers : AcquireResume(p)
    \/ Tick

(***************************************************************************)
(* Tool Sandbox (src/src/security/sandbox.ts)                              *)
(***************************************************************************)

\* config.timeout_ms || 30000
DefaultTimeoutMs == 30000

\* The sandbox's clock stops here (ms): an execute starts only if its timer
\* can fire by then.
MaxSandboxNow == 30005

\* The instants (ms) at which the sandbox's clock is observed.
SandboxTimes == {5, 10, 15, 29995, 30000, 30005}

\* The FieldValidation values of the model: a record of the rules that are
\* declared.  A pattern stands for a regular expression and is the set of
\* the model's strings that the expression matches.
FieldValidations ==
    {[max |-> 15], [min |-> 15], [min |-> 15, max |-> 15],
     [max_length |-> 2], [max_length |-> 0], [min_length |-> 2],
     [pattern |-> {"ab", "abc"}], [deny_patterns |-> <<{"zz"}, {"abc"}>>]}

\* The ToolSecurityConfig values of the model.  `validate` holds the
\* FieldValidation per input field; in `sandbox`, timeout_ms = 0 stands for
\* an absent timeout (both are falsy); in `output`, max_size_kb = 0 stands
\* for an absent limit.
SecurityConfigs ==
    [validate : {NoRules, [x |-> [max |-> 15]]},
     sandbox : [present : BOOLEAN, timeout_ms : {0, 10}],
     output : [present : BOOLEAN, max_size_kb : {0, 2}]]

\* An own property of the input object; Object.entries lists them in the
\* order in which they were set.
Entry(key, value) == [key |-> key, value |-> value]

\* The inputs execute is called with.
SandboxInputs == {<<Entry("x", Num(10))>>, <<Entry("x", Num(20))>>}

\* Security configurations and inputs that exercise the input validator:
\* rules for x, with or without rules for y, and inputs that hold x, y,
\* both in either order, or neither.
ValidateConfigs ==
    [validate : {NoRules}
                 \cup {[x |-> r] : r \in FieldValidations}
                 \cup {[x |-> r, y |-> [max |-> 15]] : r \in FieldValidations},
     sandbox : [present : BOOLEAN, timeout_ms : {10}],
     output : [present : {FALSE}, max_size_kb : {0}]]

ValidateValues == {Num(10), Num(20), Str(""), Str("a"), Str("abc"), Bool(TRUE)}

ValidateInputs ==
    {<<>>}
    \cup {<<Entry("x", v)>> : v \in ValidateValues}
    \cup {<<Entry("y", w)>> : w \in {Num(10), Num(20)}}
    \cup {<<Entry("x", v), Entry("y", Num(10))>> : v \in ValidateValues}
    \cup {<<Entry("y", Num(10)), Entry("x", v)>> : v \in ValidateValues}

\* A ValidationError with the text that follows the field name in its message.
ValidationError(message) == Error("ValidationError", message)

\* validate and validateField return nothing when they do not throw.
Passes == [t |-> "none"]

\* A rule is looked at only if it is declared.
Declares(rules, name) == name \in DOMAIN rules

\* InputValidator.validateField: the first rule the value breaks raises a
\* ValidationError.  The length rules are guarded by the truthiness of
\* their bound, the numeric rules by `!== undefined`.
validateField(fieldName, value, rules) ==
    IF value.t = "string"
    THEN IF Declares(rules, "max_length") /\ rules.max_length # 0
                /\ Len(value.s) > rules.max_length
         THEN ValidationError("exceeds max length")
         ELSE IF Declares(rules, "min_length") /\ rules.min_length # 0
                    /\ Len(value.s) < rules.min_length
         THEN ValidationError("below min length")
         ELSE IF Declares(rules, "pattern") /\ value.s \notin rules.pattern
         THEN ValidationError("does not match pattern")
         ELSE IF Declares(rules, "deny_patterns")
                    /\ \E k \in 1..Len(rules.deny_patterns) :
                            value.s \in rules.deny_patterns[k]
         THEN ValidationError("matches denied pattern")
         ELSE Passes
    ELSE IF value.t = "number"
    THEN IF Declares(rules, "min") /\ value.n < rules.min
         THEN ValidationError("below minimum")
         ELSE IF Declares(rules, "max") /\ value.n > rules.max
         THEN ValidationError("exceeds maximum")
         ELSE Passes
    ELSE Passes

\* A validator that looks at no field.
validateNothing(rules, input) == Passes

\* InputValidator.validate: the entries of the input are gone through in
\* order; an entry without declared rules is skipped; the first error
\* thrown by validateField ends the loop.
RECURSIVE validate(_, _)
validate(rules, input) ==
    IF input = <<>> THEN Passes
    ELSE LET fieldName == Head(input).key
             checked == IF fieldName \in DOMAIN rules
                        THEN validateField(fieldName, Head(input).value, rules[fieldName])
                        ELSE Passes
         IN  IF checked # Passes THEN checked ELSE validate(rules, Tail(input))

\* An output of the tool function, by the size of its JSON text in KB.
Blob(kb) == [t |-> "blob", kb |-> kb]

SandboxError(timeoutMs) ==
    [name |-> "SandboxError", message |-> "Tool execution timeout", ms |-> timeoutMs]

\* How the promise returned by toolFn(input) can settle, when it does.
ToolFnOutcomes ==
    {Resolved(Blob(1)), Resolved(Blob(5)),
     Rejected(Error("Error", "Tool handler failed"))}

NoOutcome == [pending |-> TRUE]

\* A timeout taken from the configuration as it is, without default.
TimeoutOfNoDefault(config) == config.timeout_ms

\* const timeout = config.timeout_ms || 30000
TimeoutOf(config) ==
    IF config.timeout_ms # 0 THEN config.timeout_ms ELSE DefaultTimeoutMs

\* OutputValidator.validate: the output is above the configured size.
OutputInvalid(output) ==
    /\ securityConfig.output.present
    /\ securityConfig.output.max_size_kb # 0
    /\ output.kb > securityConfig.output.max_size_kb

\* What execute settles with once the awaited promise has settled with o:
\* a resolved output goes through the output validator.
AfterAwait(o) ==
    IF o.ok /\ OutputInvalid(o.value)
    THEN Rejected(Error("ValidationError", "Output size exceeds limit"))
    ELSE o

IdleExec ==
    [pc |-> "idle", input |-> <<>>, startedAt |-> 0, timeoutMs |-> 0,
     fn |-> "notcalled", timer |-> "none", outcome |-> NoOutcome, settledAt |-> 0,
     by |-> "none"]

SandboxInit ==
    /\ now = 0
    /\ securityConfig \in SecurityConfigs
    /\ toolFn \in {"settles", "never"}
    /\ toolInput \in SandboxInputs
    /\ exec = IdleExec

\* A sandbox whose configuration and input exercise the input validator.
ValidateInit ==
    /\ now = 0
    /\ securityConfig \in ValidateConfigs
    /\ toolFn = "settles"
    /\ toolInput \in ValidateInputs
    /\ exec = IdleExec

SandboxIdle ==
    /\ securityConfig = [validate |-> NoRules,
                         sandbox |-> [present |-> FALSE, timeout_ms |-> 0],
                         output |-> [present |-> FALSE, max_size_kb |-> 0]]
    /\ toolFn = "never"
    /\ toolInput = <<>>
    /\ exec = IdleExec

\* An execute that races the tool function against a timer even without a
\* sandbox configuration.
ExecuteToAwaitAlwaysTimed(config, input, t) ==
    LET thrown == validate(config.validate, input) IN
    IF thrown # Passes
    THEN [IdleExec EXCEPT !.pc = "settled", !.input = input,
                          !.startedAt = t, !.settledAt = t,
                          !.outcome = Rejected(thrown), !.by = "validate"]
    ELSE [IdleExec EXCEPT !.pc = "race", !.input = input,
                          !.startedAt = t, !.fn = "pending",
                          !.timer = "armed",
                          !.timeoutMs = TimeoutOf(config.sandbox)]

\* execute(toolFn, input) called at time t, up to its await: the input
\* validation, then toolFn is called, directly or in a race with a timer.
ExecuteToAwait(config, input, t) ==
    LET thrown == validate(config.validate, input) IN
    IF thrown # Passes
    THEN [IdleExec EXCEPT !.pc = "settled", !.input = input,
                          !.startedAt = t, !.settledAt = t,
                          !.outcome = Rejected(thrown), !.by = "validate"]
    ELSE IF ~config.sandbox.present
    THEN [IdleExec EXCEPT !.pc = "direct", !.input = input,
                          !.startedAt = t, !.fn = "pending"]
    ELSE [IdleExec EXCEPT !.pc = "race", !.input = input,
                          !.startedAt = t, !.fn = "pending",
                          !.timer = "armed",
                          !.timeoutMs = TimeoutOf(config.sandbox)]

\* The bounded clock leaves the timer of an execute the time to fire.
TimerCanFire ==
    securityConfig.sandbox.present =>
        now + TimeoutOf(securityConfig.sandbox) <= MaxSandboxNow

SandboxExecute ==
    /\ exec.pc = "idle"
    /\ TimerCanFire
    /\ exec' = ExecuteToAwait(securityConfig, toolInput, now)
    /\ UNCHANGED <<now, securityConfig, toolFn, toolInput, notSandbox>>

\* A race that is decided again by a promise that settles after the timer.
AfterTimeoutDelivered(e, o) ==
    [e EXCEPT !.fn = IF o.ok THEN "resolved" ELSE "rejected",
              !.outcome = AfterAwait(o), !.settledAt = now]

\* The promise of toolFn(input) settles after the race was decided by the
\* timer: the race's promise is settled already and nothing else listens.
AfterTimeout(e, o) == [e EXCEPT !.fn = IF o.ok THEN "resolved" ELSE "rejected"]

\* The promise of toolFn(input) settles.  If execute is still awaiting it
\* (directly, or in a race not yet decided) execute goes on with it;
\* after a timeout the result is dropped.
ToolFnSettle ==
    /\ toolFn = "settles"
    /\ exec.fn = "pending"
    /\ \E o \in ToolFnOutcomes :
        exec' = IF exec.pc \in {"direct", "race"}
                THEN [exec EXCEPT !.fn = IF o.ok THEN "resolved" ELSE "rejected",
                                  !.pc = "settled", !.settledAt = now,
                                  !.outcome = AfterAwait(o), !.by = "toolFn"]
                ELSE AfterTimeout(exec, o)
    /\ UNCHANGED <<now, securityConfig, toolFn, toolInput, notSandbox>>

\* The timer of executeWithTimeout fires (it is never cleared): a race not
\* yet decided is rejected with a SandboxError.
TimerFire ==
    /\ exec.timer = "armed"
    /\ now >= exec.startedAt + exec.timeoutMs
    /\ exec' = IF exec.pc = "race"
               THEN [exec EXCEPT !.timer = "fired", !.pc = "settled",
                                 !.settledAt = now, !.by = "timer",
                                 !.outcome = Rejected(SandboxError(exec.timeoutMs))]
               ELSE [exec EXCEPT !.timer = "fired"]
    /\ UNCHANGED <<now, securityConfig, toolFn, toolInput, notSandbox>>

\* Time passes.
SandboxTick ==
    /\ \E t \in SandboxTimes :
        /\ t > now
        /\ now' = t
    /\ UNCHANGED <<securityConfig, toolFn, toolInput, exec, notSandbox>>

SandboxNext ==
    \/ SandboxExecute
    \/ ToolFnSettle
    \/ TimerFire
    \/ SandboxTick

(***************************************************************************)
(* A tool step: WorkflowEngine.executeTool with its ToolSandbox            *)
(* (src/src/workflow.ts, src/src/security/sandbox.ts)                      *)
(***************************************************************************)

\* ir.tools holds one tool, "safe": its security is securityConfig and its
\* handler is the tool function toolFn.
HasSandboxedTool(toolName) == toolName = "safe"

\* The step expressions of the workflows below: the tool with an input
\* within and above the declared maximum, and a tool that is not declared.
SafeStep(n) == BlockExpression("tool", "safe", <<Attribute("x", Literal(Num(n)))>>)

MissingStep == BlockExpression("tool", "missing", <<>>)

\* Workflows that call the tool at most once.
ToolStepWorkflows ==
    {[hasSteps |-> TRUE, steps |-> [k \in 1..Len(l) |-> Attribute(StepNames[k], l[k])]] :
        l \in {<<SafeStep(10)>>, <<SafeStep(20)>>, <<MissingStep>>,
                <<SafeStep(10), MissingStep>>, <<SafeStep(10), Reference(<<"s1">>)>>}}

ToolStepConfigs ==
    [validate : {NoRules, [x |-> [max |-> 15]]},
     sandbox : [present : BOOLEAN, timeout_ms : {10}],
     output : [present : BOOLEAN, max_size_kb : {2}]]

\* The `inputs` object of a step, as the entries Object.entries lists.
InputEntries(blockExpr, sc) ==
    [k \in 1..Len(blockExpr.attributes) |->
        Entry(blockExpr.attributes[k].key,
              evaluateExpression(blockExpr.attributes[k].value, sc))]

ToolStepInit ==
    /\ workflow \in [{1} -> ToolStepWorkflows]
    /\ scope = [i \in {1} |-> <<>>]
    /\ stepIdx = [i \in {1} |-> 1]
    /\ calls = [i \in {1} |-> {}]
    /\ wfStatus = [i \in {1} |-> "idle"]
    /\ wfResult = [i \in {1} |-> Undefined]
    /\ auditLog = <<>>
    /\ trace = [i \in {1} |-> <<>>]
    /\ now = 0
    /\ securityConfig \in ToolStepConfigs
    /\ toolFn \in {"settles", "never"}
    /\ toolInput = <<>>
    /\ exec = IdleExec

notToolStep == <<policyVars, gatewayVars, limiterVars, runtimeVars, evalVars, credVars, agentVars, guardVars>>

\* executeTool up to its await on sandbox.execute: the tool lookup (a tool
\* that is not declared throws before the try block), the evaluation of
\* the inputs, and the sandbox's execute up to its own await.
ToolStepStart(i) ==
    LET k == stepIdx[i]
        attr == Steps(i)[k]
        expr == attr.value
    IN  /\ wfStatus[i] = "running"
        /\ StepSettled(i)
        /\ k <= Len(Steps(i))
        /\ IsExecutable(expr)
        /\ expr.type = "tool"
        /\ stepIdx' = [stepIdx EXCEPT ![i] = @ + 1]
        /\ IF ~HasSandboxedTool(expr.identifier)
           THEN /\ Throw(i, attr.key, Error("Error", "Tool not found"))
                /\ trace' = [trace EXCEPT ![i] =
                        Append(@, SettledEvent(k, Rejected(Error("Error", "Tool not found"))))]
                /\ UNCHANGED <<calls, auditLog, toolInput, exec>>
           ELSE /\ exec.pc = "idle"
                /\ TimerCanFire
                /\ toolInput' = InputEntries(expr, scope[i])
                /\ exec' = ExecuteToAwait(securityConfig, InputEntries(expr, scope[i]), now)
                /\ calls' = [calls EXCEPT ![i] = @ \cup
                        {[step |-> k, name |-> attr.key, kind |-> "tool",
                          id |-> expr.identifier, handler |-> "external",
                          sandbox |-> securityConfig.sandbox.present,
                          inputs |-> EvaluateInputs(expr, scope[i])]}]
                /\ trace' = [trace EXCEPT ![i] =
                        Append(@, StartedEvent(k, EvaluateInputs(expr, scope[i])))]
                /\ UNCHANGED <<scope, wfStatus, wfResult, auditLog>>
        /\ UNCHANGED <<workflow, now, securityConfig, toolFn, notToolStep>>

\* An executeTool whose catch rethrows without logging.
LogToolCallSuccessOnly(log, toolId, o) ==
    IF o.ok THEN Append(log, ToolCallEvent(toolId, TRUE, "")) ELSE log

\* auditLogger.logToolCall(toolName, 'workflow', true) after the await, or
\* logToolCall(toolName, 'workflow', false, error.message) in the catch.
LogToolCall(log, toolId, o) ==
    Append(log, ToolCallEvent(toolId, o.ok, IF o.ok THEN "" ELSE o.value.message))

\* sandbox.execute has settled: executeTool logs the success and returns
\* the result, which execute stores under the step name; or its catch logs
\* the failure with the error's message and rethrows.
ToolStepSettle(i) ==
    \E c \in calls[i] :
        /\ wfStatus[i] = "running"
        /\ exec.pc = "settled"
        /\ calls' = [calls EXCEPT ![i] = @ \ {c}]
        /\ trace' = [trace EXCEPT ![i] = Append(@, SettledEvent(c.step, exec.outcome))]
        /\ auditLog' = LogToolCall(auditLog, c.id, exec.outcome)
        /\ IF exec.outcome.ok
           THEN /\ scope' = [scope EXCEPT ![i] = (c.name :> exec.outcome.value) @@ @]
                /\ UNCHANGED <<wfStatus, wfResult>>
           ELSE Throw(i, c.name, exec.outcome.value)
        /\ UNCHANGED <<workflow, stepIdx, now, sandboxVars, notToolStep>>

ToolStepNext ==
    \/ Execute(1)
    \/ SkipStep(1)
    \/ ToolStepStart(1)
    \/ ToolStepSettle(1)
    \/ Return(1)
    \/ ToolFnSettle
    \/ TimerFire
    \/ SandboxTick

(***************************************************************************)
(* Runtime Core (src/src/workflow.ts, class Runtime)                       *)
(***************************************************************************)

\* Most Runtime.load calls made on one runtime.
MaxLoads == 2

\* Most emit() calls made on one runtime.
MaxEmits == 2

\* The blocks of a parsed program.  `origin` is the load that stored the
\* block in the runtime, 0 in a program not loaded yet; `fails` says whether
\* engine.execute of a workflow block rejects.
AgentBlock(identifier, children) ==
    [type |-> "agent", identifier |-> identifier, children |-> children,
     fails |-> FALSE, origin |-> 0]

WorkflowBlock(identifier, fails) ==
    [type |-> "workflow", identifier |-> identifier, children |-> <<>>,
     fails |-> fails, origin |-> 0]

\* A child `on event "<label>" { ... }` of an agent, and the children of an
\* on block: `call workflow "<label>"` and `use tool "<label>"`.
OnEvent(label, children) ==
    [type |-> "on", identifier |-> "event", label |-> label, children |-> children]

CallWorkflow(label) == [type |-> "call", identifier |-> "workflow", label |-> label]

UseTool(label) == [type |-> "use", identifier |-> "tool", label |-> label]

NoBlock == [type |-> "none", identifier |-> "", children |-> <<>>,
            fails |-> FALSE, origin |-> 0]

\* A parsed program with what its IR holds: the blocks in declaration
\* order, the ids of ir.policies and whether ir.providers is non-empty.
Program(blks, policyIds, providers) ==
    [blocks |-> blks, policies |-> policyIds, providers |-> providers]

NoProgram == Program(<<>>, {}, FALSE)

Programs ==
    { Program(<< AgentBlock("a1", << OnEvent("e", << CallWorkflow("w1"), UseTool("t"),
                                                      CallWorkflow("w2") >>) >>),
                 AgentBlock("a2", << OnEvent("e", << CallWorkflow("w2") >>) >>),
                 AgentBlock("a3", << OnEvent("f", << CallWorkflow("w1") >>) >>),
                 WorkflowBlock("w1", f),
                 WorkflowBlock("w2", FALSE) >>,
              {"p1"}, TRUE) : f \in BOOLEAN }
    \cup
    { Program(<< AgentBlock("a2", << OnEvent("e", << CallWorkflow("w3"),
                                                      CallWorkflow("w2") >>) >>),
                 AgentBlock("a1", << OnEvent("e", << CallWorkflow("w2") >>) >>),
                 WorkflowBlock("w2", FALSE) >>,
              {"p2"}, FALSE),
      Program(<< WorkflowBlock("w2", FALSE) >>, {}, FALSE) }

EventNames == {"e", "f"}

\* The key `${block.type}.${block.identifier}` of a block.
BlockId(block) == <<block.type, block.identifier>>

\* Map.has / Map.get on the insertion-ordered entries of a Map.
MapHas(m, id) == \E k \in 1..Len(m) : m[k].id = id

MapGet(m, id) == m[CHOOSE k \in 1..Len(m) : m[k].id = id].block

\* Map.set: an existing key keeps its position and gets the new value, a
\* new key is appended.
MapSet(m, id, block) ==
    IF MapHas(m, id)
    THEN [k \in 1..Len(m) |-> IF m[k].id = id THEN [id |-> id, block |-> block] ELSE m[k]]
    ELSE Append(m, [id |-> id, block |-> block])

\* load's loop `for (const block of program.blocks) this.blocks.set(id, block)`.
RECURSIVE StoreBlocks(_, _, _)
StoreBlocks(m, blks, n) ==
    IF blks = <<>> THEN m
    ELSE StoreBlocks(MapSet(m, BlockId(Head(blks)), [Head(blks) EXCEPT !.origin = n]),
                     Tail(blks), n)

\* A Map iterated from its last entry to its first.
EntriesReversed(m) == [k \in 1..Len(m) |-> m[Len(m) + 1 - k]]

\* `for (const [id, block] of this.blocks)`: the entries in insertion order.
Entries(m) == m

\* block.children?.find(c => c.type === 'on' && c.identifier === 'event' &&
\* c.label === eventName)
IsOnEvent(child, eventName) ==
    child.type = "on" /\ child.identifier = "event" /\ child.label = eventName

HasOnBlock(block, eventName) ==
    \E k \in 1..Len(block.children) : IsOnEvent(block.children[k], eventName)

FindOnBlock(block, eventName) ==
    block.children[CHOOSE k \in 1..Len(block.children) :
        /\ IsOnEvent(block.children[k], eventName)
        /\ \A l \in 1..(k - 1) : ~IsOnEvent(block.children[l], eventName)]

\* The history of an emit() call.
RuntimeEvent(ev, agent, workflowName, origin, gen, ok) ==
    [ev |-> ev, agent |-> agent, workflow |-> workflowName, origin |-> origin,
     gen |-> gen, ok |-> ok]

HandlerStart(agent) == RuntimeEvent("handler.start", agent, "", 0, 0, TRUE)

HandlerEnd(agent) == RuntimeEvent("handler.end", agent, "", 0, 0, TRUE)

WorkflowStart(agent, block, gen) ==
    RuntimeEvent("workflow.start", agent, block.identifier, block.origin, gen, TRUE)

WorkflowEnd(agent, block, ok) ==
    RuntimeEvent("workflow.end", agent, block.identifier, block.origin, 0, ok)

NoHandler == [agent |-> "", children |-> <<>>]

\* A call child of the handler that callWorkflow finds in this.blocks.
CallsKnownWorkflow(child) ==
    /\ child.type = "call"
    /\ child.identifier = "workflow"
    /\ child.label # ""
    /\ MapHas(blocks, <<"workflow", child.label>>)

\* emit and executeHandler from position (i, j) up to their next suspension
\* on engine.execute, or to the end of emit.  i is the position in the
\* entries of this.blocks; j the position in the children of the on block
\* being handled (0: block i has not been looked at); h that on block.
RECURSIVE RunToAwait(_, _, _, _, _)
RunToAwait(eventName, i, j, h, log) ==
    LET b == Entries(blocks) IN
    IF i > Len(b)
    THEN [stop |-> "end", i |-> i, j |-> 0, h |-> NoHandler, log |-> log, wf |-> NoBlock]
    ELSE IF j = 0
    THEN LET block == b[i].block IN
         IF block.type = "agent" /\ HasOnBlock(block, eventName)
         THEN RunToAwait(eventName, i, 1,
                  [agent |-> block.identifier,
                   children |-> FindOnBlock(block, eventName).children],
                  Append(log, HandlerStart(block.identifier)))
         ELSE RunToAwait(eventName, i + 1, 0, NoHandler, log)
    ELSE IF j > Len(h.children)
    THEN RunToAwait(eventName, i + 1, 0, NoHandler, Append(log, HandlerEnd(h.agent)))
    ELSE IF CallsKnownWorkflow(h.children[j])
    THEN LET wf == MapGet(blocks, <<"workflow", h.children[j].label>>) IN
         [stop |-> "workflow", i |-> i, j |-> j, h |-> h,
          log |-> Append(log, WorkflowStart(h.agent, wf, loads)), wf |-> wf]
    ELSE RunToAwait(eventName, i, j + 1, h, log)

\* The emit() calls of a specification are the domain of emits.
EmitCalls == DOMAIN emits

IdleEmit ==
    [status |-> "idle", event |-> "", i |-> 0, j |-> 0, h |-> NoHandler,
     wf |-> NoBlock, log |-> <<>>, gen |-> 0]

RuntimeInitFor(ids) ==
    /\ blocks = <<>>
    /\ ir = NoProgram
    /\ gateway = 0
    /\ policies = <<>>
    /\ loads = 0
    /\ emits = [c \in ids |-> IdleEmit]
    /\ emitted = 0

RuntimeInit == RuntimeInitFor({1})

RuntimeIdle ==
    /\ blocks = <<>>
    /\ ir = NoProgram
    /\ gateway = 0
    /\ policies = <<>>
    /\ loads = 0
    /\ emits = <<>>
    /\ emitted = 0

\* load: the IR is replaced; the program's blocks are stored in
\* this.blocks; a gateway is constructed if the program has providers; an
\* enforcer is stored per policy of the program.
Load ==
    /\ loads < MaxLoads
    /\ \E program \in Programs :
        /\ ir' = program
        /\ blocks' = StoreBlocks(blocks, program.blocks, loads + 1)
        /\ gateway' = IF program.providers THEN loads + 1 ELSE gateway
        /\ policies' = [id \in program.policies |-> loads + 1] @@ policies
    /\ loads' = loads + 1
    /\ UNCHANGED <<emits, emitted, notRuntime>>

\* What a position reached by RunToAwait means for the emit() call.
Suspended(call, r) ==
    [call EXCEPT !.status = IF r.stop = "end" THEN "returned" ELSE "running",
                 !.i = r.i, !.j = r.j, !.h = r.h, !.wf = r.wf, !.log = r.log]

\* emit up to its first suspension on a workflow, or to its end.
Emit(c) ==
    /\ emits[c].status \in {"idle", "returned", "threw"}
    /\ emitted < MaxEmits
    /\ \E eventName \in EventNames :
        emits' = [emits EXCEPT ![c] =
            Suspended([IdleEmit EXCEPT !.event = eventName, !.gen = loads],
                      RunToAwait(eventName, 1, 0, NoHandler, <<>>))]
    /\ emitted' = emitted + 1
    /\ UNCHANGED <<blocks, ir, gateway, policies, loads, notRuntime>>

\* engine.execute resolves: callWorkflow logs the success and the handler
\* goes on with its next child.
WorkflowResolves(c) ==
    LET call == emits[c] IN
    /\ call.status = "running"
    /\ ~call.wf.fails
    /\ emits' = [emits EXCEPT ![c] =
            Suspended(call,
                RunToAwait(call.event, call.i, call.j + 1, call.h,
                           Append(call.log, WorkflowEnd(call.h.agent, call.wf, TRUE))))]
    /\ UNCHANGED <<blocks, ir, gateway, policies, loads, emitted, notRuntime>>

\* engine.execute rejects: callWorkflow logs the failure and rethrows;
\* neither executeHandler nor emit catches, so emit rejects.
WorkflowRejects(c) ==
    LET call == emits[c] IN
    /\ call.status = "running"
    /\ call.wf.fails
    /\ emits' = [emits EXCEPT ![c].status = "threw",
                              ![c].log = Append(@, WorkflowEnd(call.h.agent, call.wf, FALSE))]
    /\ UNCHANGED <<blocks, ir, gateway, policies, loads, emitted, notRuntime>>

RuntimeNext ==
    \/ Load
    \/ \E c \in EmitCalls : Emit(c)
    \/ \E c \in EmitCalls : WorkflowResolves(c)
    \/ \E c \in EmitCalls : WorkflowRejects(c)

(***************************************************************************)
(* Runtime.executeAgent, run twice on one agent (src/src/workflow.ts)      *)
(***************************************************************************)

\* Policies that differ in their tool lists: one without lists, one that
\* denies the tool r1, one that allows r2 only.
ToolPolicy(denyTools, allowTools) ==
    [deny |-> [k \in ResourceKinds |-> IF k = "tools" THEN denyTools ELSE NoList],
     allow |-> [k \in ResourceKinds |-> IF k = "tools" THEN allowTools ELSE NoList]]

AgentPolicies ==
    {ToolPolicy(NoList, NoList),
     ToolPolicy(IdList({"r1"}), NoList),
     ToolPolicy(NoList, IdList({"r2"}))}

\* agent.policy: absent, a dotted string such as "policy.p1", or an object
\* with an id.
PolicyRefs == {"none", "string", "object"}

\* What the two runs share: whether ir.agents has the agent, whether the
\* runtime has a gateway, whether this.policies has an enforcer under the
\* referenced id, whether the agent has a system prompt, and how the
\* gateway answers the call.
AgentEnvs ==
    [found : BOOLEAN, gateway : BOOLEAN, registered : BOOLEAN,
     systemPrompt : BOOLEAN, answer : {"ok", "fail"}]

\* An event handed to auditLogger.log.
AgentEvent(event, success, detail) ==
    [event |-> event, agent |-> "a1", success |-> success, detail |-> detail]

NoCall == [modelConfig |-> "", messages |-> <<>>]

\* The agent uses the tool r1.
AgentTool == "r1"

\* A policy check that applies the enforcer to the agent's tool.
EnforcePolicyOnTool(p) == checkToolAccess(p, AgentTool)

\* What executeAgent does with the enforcer it found: nothing (the
\* enforcement is left as a TODO), so no PolicyError is raised.
EnforcePolicy(p) == NoError

\* fullMessages: the caller's messages, after the system prompt if any.
FullMessages(env) ==
    IF env.systemPrompt THEN <<"system", "user">> ELSE <<"user">>

IdleRun(ref, p) ==
    [policyRef |-> ref, policy |-> p, pc |-> "idle", log |-> <<>>,
     call |-> NoCall, result |-> Undefined]

AgentRunIds == DOMAIN agentRuns

AgentInit ==
    /\ agentEnv \in AgentEnvs
    /\ agentRuns \in [{1, 2} -> {IdleRun(ref, p) : ref \in PolicyRefs, p \in AgentPolicies}]

AgentIdle ==
    /\ agentEnv = [found |-> FALSE, gateway |-> FALSE, registered |-> FALSE,
                   systemPrompt |-> FALSE, answer |-> "fail"]
    /\ agentRuns = <<>>

\* executeAgent up to its await on gateway.complete: the agent and gateway
\* lookups, the policy check, the agent.execute event and the call.
ExecuteAgent(r) ==
    LET run == agentRuns[r]
        checked == run.policyRef # "none" /\ agentEnv.registered
        afterCheck == IF checked
                      THEN <<AgentEvent("agent.policy_check", TRUE, "p1")>>
                      ELSE <<>>
    IN  /\ run.pc = "idle"
        /\ agentRuns' = [agentRuns EXCEPT ![r] =
            IF ~agentEnv.found
            THEN [run EXCEPT !.pc = "threw", !.result = Error("Error", "Agent not found")]
            ELSE IF ~agentEnv.gateway
            THEN [run EXCEPT !.pc = "threw",
                             !.result = Error("Error", "Model gateway not initialized")]
            ELSE IF checked /\ EnforcePolicy(run.policy) # NoError
            THEN [run EXCEPT !.pc = "threw", !.log = afterCheck,
                             !.result = Error("PolicyError", EnforcePolicy(run.policy).rule)]
            ELSE [run EXCEPT !.pc = "awaiting",
                             !.log = Append(afterCheck, AgentEvent("agent.execute", TRUE, "")),
                             !.call = [modelConfig |-> "A/gpt-4",
                                       messages |-> FullMessages(agentEnv)]]]
        /\ UNCHANGED <<agentEnv, notAgent>>

\* gateway.complete settles: the response is logged and returned, or the
\* error is logged and rethrown.
AgentSettle(r) ==
    LET run == agentRuns[r] IN
    /\ run.pc = "awaiting"
    /\ agentRuns' = [agentRuns EXCEPT ![r] =
        IF agentEnv.answer = "ok"
        THEN [run EXCEPT !.pc = "returned",
                         !.log = Append(@, AgentEvent("agent.complete", TRUE, "")),
                         !.result = Obj(AgentResponse)]
        ELSE [run EXCEPT !.pc = "threw",
                         !.log = Append(@, AgentEvent("agent.error", FALSE,
                                                      "All providers failed")),
                         !.result = Error("Error", "All providers failed")]]
    /\ UNCHANGED <<agentEnv, notAgent>>

AgentNext ==
    \/ \E r \in AgentRunIds : ExecuteAgent(r)
    \/ \E r \in AgentRunIds : AgentSettle(r)

(***************************************************************************)
(* Tool Sandbox: the network guard (src/src/security/sandbox.ts)           *)
(***************************************************************************)

\* Longest host name, in characters.
MaxHostLen == 3

\* Longest network_hosts list.
MaxAllowedHosts == 2

\* The characters of the host names.
HostChars == {"a", "b", "."}

\* A host name is the sequence of its characters.
Hosts == UNION {[1..n -> HostChars] : n \in 0..MaxHostLen}

\* The hosts a network_hosts list names.
AllowedHosts == {<<"a">>, <<"b">>, <<"a", ".", "b">>}

NoHosts == [present |-> FALSE, list |-> <<>>]

\* securityConfig?.sandbox as the guards read it: absent, or a record with
\* network_allowed and an optional network_hosts array.
GuardConfigs ==
    {[present |-> FALSE, network_allowed |-> FALSE, network_hosts |-> NoHosts]}
    \cup [present : {TRUE}, network_allowed : BOOLEAN,
          network_hosts : {NoHosts} \cup
              [present : {TRUE},
               list : UNION {[1..n -> AllowedHosts] : n \in 0..MaxAllowedHosts}]]

\* String.prototype.endsWith.
EndsWith(s, suffix) ==
    /\ Len(suffix) <= Len(s)
    /\ SubSeq(s, Len(s) - Len(suffix) + 1, Len(s)) = suffix

\* A match that accepts any host ending with the allowed host.
HostMatchesSuffix(host, allowedHost) == EndsWith(host, allowedHost)

\* host === allowedHost || host.endsWith(`.${allowedHost}`)
HostMatches(host, allowedHost) ==
    host = allowedHost \/ EndsWith(host, <<".">> \o allowedHost)

NetworkError(message) == [name |-> "SandboxError", message |-> message]

\* checkNetworkAccess returns nothing when it does not throw.
Allowed == [name |-> "none", message |-> ""]

\* ToolSandbox.checkNetworkAccess: what it throws, if anything.
checkNetworkAccess(config, host) ==
    IF ~config.present THEN Allowed
    ELSE IF ~config.network_allowed
    THEN NetworkError("Network access is not allowed by sandbox policy")
    ELSE IF config.network_hosts.present /\ Len(config.network_hosts.list) > 0
            /\ ~\E k \in 1..Len(config.network_hosts.list) :
                    HostMatches(host, config.network_hosts.list[k])
    THEN NetworkError("Network access to host is not allowed")
    ELSE Allowed

NotChecked == [name |-> "notchecked", message |-> ""]

GuardInit ==
    /\ guardConfig \in GuardConfigs
    /\ guardHost \in Hosts
    /\ guardResult = NotChecked

GuardIdle ==
    /\ guardConfig = [present |-> FALSE, network_allowed |-> FALSE, network_hosts |-> NoHosts]
    /\ guardHost = <<>>
    /\ guardResult = NotChecked

\* A tool handler calls checkNetworkAccess(host) before it performs I/O.
CheckNetworkAccess ==
    /\ guardResult = NotChecked
    /\ guardResult' = checkNetworkAccess(guardConfig, guardHost)
    /\ UNCHANGED <<guardConfig, guardHost, notGuard>>

GuardNext == CheckNetworkAccess

(***************************************************************************)
(* A workflow on a runtime with and without a policy (src/src/workflow.ts) *)
(***************************************************************************)

\* A runtime whose program declares no policy holds no PolicyEnforcer.
NoPolicyLoaded == [loaded |-> FALSE]

\* The policies of the loaded program: one that denies the tool echo, one
\* whose allow list names the tool pass only, and one that denies an
\* unrelated tool.
LoadedPolicies ==
    {ToolPolicy(IdList({"echo"}), NoList),
     ToolPolicy(NoList, IdList({"pass"})),
     ToolPolicy(IdList({"other"}), NoList)}

\* The workflows run on both runtimes.
PolicyStepWorkflows ==
    {[hasSteps |-> TRUE, steps |-> [k \in 1..Len(l) |-> Attribute(StepNames[k], l[k])]] :
        l \in {<<EchoStep>>,
                <<EchoStep, PassStep(<<"s1">>)>>,
                <<PassStep(<<"input", "n">>), EchoStep>>,
                <<EchoStep, AgentStep, Reference(<<"s1">>)>>,
                <<BlockExpression("tool", "missing", <<>>)>>}}

\* Two runtimes run the same workflow on the same input: runtime 1 has
\* loaded a policy, runtime 2 none.
PolicyStepInit ==
    /\ \E p \in LoadedPolicies : policy = (1 :> p) @@ (2 :> NoPolicyLoaded)
    /\ check = NoCheck
    /\ \E w \in PolicyStepWorkflows : workflow = [i \in {1, 2} |-> w]
    /\ scope = [i \in {1, 2} |-> <<>>]
    /\ stepIdx = [i \in {1, 2} |-> 1]
    /\ calls = [i \in {1, 2} |-> {}]
    /\ wfStatus = [i \in {1, 2} |-> "idle"]
    /\ wfResult = [i \in {1, 2} |-> Undefined]
    /\ auditLog = <<>>
    /\ trace = [i \in {1, 2} |-> <<>>]

(***************************************************************************)
(* Specifications                                                          *)
(***************************************************************************)

InitInitialize ==
    PolicyIdle /\ WorkflowIdle /\ GatewayConstructed /\ LimiterIdle /\ SandboxIdle /\ RuntimeIdle /\ EvalIdle /\ CredIdle /\ AgentIdle /\ GuardIdle

SpecInitialize == InitInitialize /\ [][InitializeNext]_vars

InitEval ==
    PolicyIdle /\ WorkflowIdle /\ GatewayIdle /\ LimiterIdle /\ SandboxIdle /\ RuntimeIdle /\ EvalInit /\ CredIdle /\ AgentIdle /\ GuardIdle

SpecEval == InitEval /\ [][EvalNext]_vars

InitToolStep ==
    PolicyIdle /\ GatewayIdle /\ LimiterIdle /\ RuntimeIdle /\ EvalIdle /\ ToolStepInit /\ CredIdle /\ AgentIdle /\ GuardIdle

SpecToolStep == InitToolStep /\ [][ToolStepNext]_vars

InitCred ==
    PolicyIdle /\ WorkflowIdle /\ GatewayIdle /\ LimiterIdle /\ SandboxIdle /\ RuntimeIdle /\ EvalIdle /\ CredInit /\ AgentIdle /\ GuardIdle

SpecCred == InitCred /\ [][CredNext]_vars

InitAgent ==
    PolicyIdle /\ WorkflowIdle /\ GatewayIdle /\ LimiterIdle /\ SandboxIdle /\ RuntimeIdle /\ EvalIdle /\ CredIdle /\ AgentInit /\ GuardIdle

SpecAgent == InitAgent /\ [][AgentNext]_vars

InitGuard ==
    PolicyIdle /\ WorkflowIdle /\ GatewayIdle /\ LimiterIdle /\ SandboxIdle /\ RuntimeIdle /\ EvalIdle /\ CredIdle /\ AgentIdle /\ GuardInit

SpecGuard == InitGuard /\ [][GuardNext]_vars

InitInterleaved ==
    PolicyIdle /\ InterleavedInit /\ GatewayIdle /\ LimiterIdle /\ SandboxIdle /\ RuntimeIdle /\ EvalIdle /\ CredIdle /\ AgentIdle /\ GuardIdle

SpecInterleaved == InitInterleaved /\ [][WorkflowNext]_vars

InitConcurrent ==
    PolicyIdle /\ WorkflowIdle /\ ConcurrentInit /\ LimiterIdle /\ SandboxIdle /\ RuntimeIdle /\ EvalIdle /\ CredIdle /\ AgentIdle /\ GuardIdle

SpecConcurrent == InitConcurrent /\ [][GatewayNext]_vars

InitPolicyStep ==
    PolicyStepInit /\ GatewayIdle /\ LimiterIdle /\ SandboxIdle /\ RuntimeIdle /\ EvalIdle /\ CredIdle /\ AgentIdle /\ GuardIdle

SpecPolicyStep == InitPolicyStep /\ [][WorkflowNext]_vars

InitSequential ==
    PolicyIdle /\ WorkflowIdle /\ GatewayIdle /\ SequentialInit /\ SandboxIdle /\ RuntimeIdle /\ EvalIdle /\ CredIdle /\ AgentIdle /\ GuardIdle

SpecSequential == InitSequential /\ [][SequentialNext]_vars

InitRuntime ==
    PolicyIdle /\ WorkflowIdle /\ GatewayIdle /\ LimiterIdle /\ SandboxIdle /\ RuntimeInit /\ EvalIdle /\ CredIdle /\ AgentIdle /\ GuardIdle

SpecRuntime == InitRuntime /\ [][RuntimeNext]_vars

InitSandbox ==
    PolicyIdle /\ WorkflowIdle /\ GatewayIdle /\ LimiterIdle /\ SandboxInit /\ RuntimeIdle /\ EvalIdle /\ CredIdle /\ AgentIdle /\ GuardIdle

SpecSandbox == InitSandbox /\ [][SandboxNext]_vars

\* Time goes on and a timer whose delay has passed fires.
FairSpecSandbox == SpecSandbox /\ WF_vars(SandboxTick) /\ WF_vars(TimerFire)

InitValidate ==
    PolicyIdle /\ WorkflowIdle /\ GatewayIdle /\ LimiterIdle /\ ValidateInit /\ RuntimeIdle /\ EvalIdle /\ CredIdle /\ AgentIdle /\ GuardIdle

SpecValidate == InitValidate /\ [][SandboxNext]_vars

InitGateway ==
    PolicyIdle /\ WorkflowIdle /\ GatewayInit /\ LimiterIdle /\ SandboxIdle /\ RuntimeIdle /\ EvalIdle /\ CredIdle /\ AgentIdle /\ GuardIdle

SpecGateway == InitGateway /\ [][GatewayNext]_vars

InitLimiter ==
    PolicyIdle /\ WorkflowIdle /\ GatewayIdle /\ LimiterInit /\ SandboxIdle /\ RuntimeIdle /\ EvalIdle /\ CredIdle /\ AgentIdle /\ GuardIdle

SpecLimiter == InitLimiter /\ [][LimiterNext]_vars

\* Time passes, and a timer that is due fires.
FairSpecLimiter ==
    SpecLimiter /\ WF_vars(Tick) /\ \A p \in {1, 2} : WF_vars(AcquireResume(p))

InitWorkflow ==
    PolicyIdle /\ WorkflowInit /\ GatewayIdle /\ LimiterIdle /\ SandboxIdle /\ RuntimeIdle /\ EvalIdle /\ CredIdle /\ AgentIdle /\ GuardIdle

SpecWorkflow == InitWorkflow /\ [][WorkflowNext]_vars

PolicyNext ==
    \/ CheckToolAccess
    \/ CheckWorkflowAccess
    \/ CheckDataAccess

InitPolicy ==
    PolicyInit /\ WorkflowIdle /\ GatewayIdle /\ LimiterIdle /\ SandboxIdle /\ RuntimeIdle /\ EvalIdle /\ CredIdle /\ AgentIdle /\ GuardIdle

SpecPolicy == InitPolicy /\ [][PolicyNext]_vars

\* C1: for every policy and every id in the deny list of a kind (tools,
\* workflows, data), the access check of that kind raises a PolicyError for
\* the id, whether or not the id is also in the allow list of that kind.
C1_DenyOverridesAllow ==
    (check.kind \in ResourceKinds /\ includes(policy.deny[check.kind], check.id))
        => check.outcome.raised = "PolicyError"

\* A denied id that is also allowed has been checked.
C1_Witness ==
    /\ check.kind \in ResourceKinds
    /\ includes(policy.deny[check.kind], check.id)
    /\ includes(policy.allow[check.kind], check.id)
    /\ check.outcome.raised = "PolicyError"

\* C2: for an id that is not denied, the check passes when the kind has no
\* allow list, and otherwise passes exactly when the id is in the allow list:
\* with an allow list present and the id in neither list it raises PolicyError.
C2_AllowListMembership ==
    (check.kind \in ResourceKinds /\ ~includes(policy.deny[check.kind], check.id))
        => /\ (check.outcome.raised = "none")
                <=> (~policy.allow[check.kind].present
                        \/ check.id \in policy.allow[check.kind].items)
           /\ check.outcome.raised \in {"none", "PolicyError"}

\* An id in neither list has been checked against an existing allow list.
C2_Witness ==
    /\ check.kind \in ResourceKinds
    /\ policy.allow[check.kind].present
    /\ ~includes(policy.deny[check.kind], check.id)
    /\ ~includes(policy.allow[check.kind], check.id)
    /\ check.outcome.raised = "PolicyError"

\* The step attribute at position k of invocation i.
StepAt(i, k) == Steps(i)[k]

\* C3: execute runs the executable steps one at a time in declaration order:
\* a step's inputs are evaluated and its call started only after the call of
\* every earlier executable step has completed and stored its result, so a
\* reference to an earlier step's name reads that step's result.
C3_StepsRunOneAtATimeInOrder ==
    \A i \in Invocations :
        LET tr == trace[i] IN
        /\ Cardinality(calls[i]) <= 1
        /\ \A p \in 1..Len(tr) : \A q \in 1..(p - 1) : tr[q].step <= tr[p].step
        /\ \A p \in 1..Len(tr) :
            tr[p].ev = "start" =>
                LET k == tr[p].step
                    attrs == StepAt(i, k).value.attributes
                IN  /\ p < Len(tr) => (tr[p + 1].ev = "settle" /\ tr[p + 1].step = k)
                    /\ \A j \in 1..(k - 1) :
                        IsExecutable(StepAt(i, j).value) =>
                            \E q \in 1..(p - 1) :
                                /\ tr[q].ev = "settle"
                                /\ tr[q].step = j
                                /\ tr[q].outcome.ok
                                /\ \A a \in 1..Len(attrs) :
                                    attrs[a].value = Reference(<<StepAt(i, j).key>>)
                                        => tr[p].inputs[attrs[a].key] = tr[q].outcome.value

\* The second step has started with the result 20 of the first as its input.
C3_Witness ==
    /\ Len(trace[1]) >= 3
    /\ trace[1][2].ev = "settle"
    /\ trace[1][2].outcome = Resolved(Num(20))
    /\ trace[1][3].ev = "start"
    /\ trace[1][3].step = 2
    /\ StepAt(1, 2).value.attributes = <<Attribute("x", Reference(<<"s1">>))>>
    /\ trace[1][3].inputs = [x |-> Num(20)]

\* The workflow of C4: s1 is a tool step, s2 a reference expression to s1,
\* execute has returned and the call of s1 produced v.
C4_Case(i, v) ==
    /\ wfStatus[i] = "returned"
    /\ Len(Steps(i)) >= 2
    /\ StepAt(i, 1).value.kind = "BlockExpression"
    /\ StepAt(i, 1).value.type = "tool"
    /\ StepAt(i, 2).value = Reference(<<StepAt(i, 1).key>>)
    /\ Len(trace[i]) >= 2
    /\ trace[i][2] = SettledEvent(1, Resolved(v))

\* C4 as stated: with s1 = a tool step that produced 10 and s2 = a reference
\* to s1, the returned scope binds s2 to 10.
C4_Original ==
    \A i \in Invocations :
        C4_Case(i, Num(10)) =>
            /\ StepAt(i, 2).key \in DOMAIN wfResult[i].o
            /\ wfResult[i].o[StepAt(i, 2).key] = Num(10)

\* C4 amended: the returned scope binds s1 to the value v its tool call
\* produced and does not bind s2: a step that is a bare reference expression
\* is not executed and stores nothing.
C4_ReferenceStepNotBound ==
    \A i \in Invocations : \A v \in HandlerResults :
        C4_Case(i, v) =>
            /\ wfResult[i].t = "object"
            /\ StepAt(i, 1).key \in DOMAIN wfResult[i].o
            /\ wfResult[i].o[StepAt(i, 1).key] = v
            /\ StepAt(i, 2).key \notin DOMAIN wfResult[i].o

\* The two-step workflow of C4 has returned with s1 = 10.
C4_Witness ==
    /\ C4_Case(1, Num(10))
    /\ Len(Steps(1)) = 2
    /\ wfResult[1] = Obj([input |-> WorkflowInput, s1 |-> Num(10)])

\* C5: when a step fails, no later step is executed and execute raises the
\* step's error instead of returning a scope; the failing step's name is
\* bound in no state.
C5_FailureAbortsWorkflow ==
    \A i \in Invocations :
        \A p \in 1..Len(trace[i]) :
            (trace[i][p].ev = "settle" /\ ~trace[i][p].outcome.ok) =>
                /\ p = Len(trace[i])
                /\ calls[i] = {}
                /\ wfStatus[i] = "threw"
                /\ wfResult[i] = trace[i][p].outcome.value
                /\ wfResult[i].t = "error"
                /\ StepAt(i, trace[i][p].step).key \notin DOMAIN scope[i]

\* The second of three steps failed after the first succeeded.
C5_Witness ==
    /\ Len(Steps(1)) = 3
    /\ IsExecutable(StepAt(1, 3).value)
    /\ Len(trace[1]) = 4
    /\ trace[1][2].outcome.ok
    /\ trace[1][4] = SettledEvent(2, Rejected(Error("Error", "Tool handler failed")))
    /\ "s1" \in DOMAIN scope[1]
    /\ wfStatus[1] = "threw"

\* A call that complete dispatched to failoverStrategy by the failover
\* strategy (named, or absent and defaulted).
IsFailoverCall(call) ==
    /\ call.status # "idle"
    /\ ~call.simple
    /\ call.strategy \in {"failover", ""}

IsRoundRobinCall(call) ==
    /\ call.status # "idle"
    /\ ~call.simple
    /\ call.strategy = "round_robin"

\* The error completeWithProvider raised for an entry of a call's history.
ErrorOfTried(entry) ==
    IF entry.outcome = "notfound"
    THEN NotFoundError(entry.provider)
    ELSE AdapterError(entry.provider)

\* The sum of the request counters of all providers when the call was made.
RequestsBefore(call) == SumRequests(call.before, ProviderIds)

\* C6: under failover the candidates [primary, ...fallback] are tried one at
\* a time in list order, candidate i+1 only after candidate i has failed, and
\* complete returns the response of the first candidate that succeeds, with
\* no later candidate invoked.
C6_FailoverTriesInOrder ==
    \A c \in GatewayCalls :
        LET call == gwCalls[c]
            t == call.tried
        IN  IsFailoverCall(call) =>
                /\ Len(t) <= Len(call.candidates)
                /\ \A k \in 1..Len(t) :
                    /\ t[k].idx = k
                    /\ t[k].provider = call.candidates[k].provider[Len(call.candidates[k].provider)]
                    /\ t[k].name = call.candidates[k].name
                    /\ k < Len(t) => t[k].outcome \in {"failed", "notfound"}
                /\ call.status = "returned" =>
                    /\ t[Len(t)].outcome = "ok"
                    /\ call.response.provider = t[Len(t)].provider
                    /\ call.response.model = t[Len(t)].name

\* A failover call over three candidates returned the second one's response.
C6_Witness ==
    /\ IsFailoverCall(gwCalls[1])
    /\ gwCalls[1].status = "returned"
    /\ Len(gwCalls[1].candidates) = 3
    /\ Len(gwCalls[1].tried) = 2
    /\ gwCalls[1].tried[1].outcome = "failed"
    /\ gwCalls[1].response.provider = "B"

\* The call of C7: failover over [A, B], A's adapter call failed and B's
\* succeeded.
C7_Case(call) ==
    /\ IsFailoverCall(call)
    /\ call.status = "returned"
    /\ Len(call.candidates) = 2
    /\ Len(call.tried) = 2
    /\ call.tried[1].outcome = "failed"
    /\ call.tried[2].outcome = "ok"
    /\ call.tried[1].provider # call.tried[2].provider

\* C7: in a failover call over [A, B] where A's adapter call fails and B's
\* succeeds, the call returns B's response, A's error counter has increased
\* by exactly one and B's request counter by exactly one.
C7_FailoverCounters ==
    \A c \in GatewayCalls :
        LET call == gwCalls[c]
            a == call.tried[1].provider
            b == call.tried[2].provider
        IN  C7_Case(call) =>
                /\ call.response.provider = b
                /\ usageStats[a].errors = call.before[a].errors + 1
                /\ usageStats[b].requests = call.before[b].requests + 1

\* A failed and B answered in a failover call over [A, B].
C7_Witness ==
    /\ C7_Case(gwCalls[1])
    /\ gwCalls[1].tried[1].provider = "A"
    /\ gwCalls[1].response.provider = "B"
    /\ usageStats["A"].errors = gwCalls[1].before["A"].errors + 1

\* C8: under failover, when every candidate fails, each candidate has been
\* tried exactly once in list order and complete raises one aggregate error
\* that references the error of the last candidate tried; no candidate's own
\* error is raised to the caller.
C8_FailoverExhausted ==
    \A c \in GatewayCalls :
        LET call == gwCalls[c]
            t == call.tried
        IN  (IsFailoverCall(call) /\ call.status = "threw") =>
                /\ Len(t) = Len(call.candidates)
                /\ \A k \in 1..Len(t) :
                    /\ t[k].idx = k
                    /\ t[k].outcome \in {"failed", "notfound"}
                /\ call.error = AllFailedError(ErrorOfTried(t[Len(t)]))

\* Three candidates failed, the first and the last with different errors.
C8_Witness ==
    /\ IsFailoverCall(gwCalls[1])
    /\ gwCalls[1].status = "threw"
    /\ Len(gwCalls[1].tried) = 3
    /\ gwCalls[1].tried[1].outcome = "notfound"
    /\ gwCalls[1].tried[3].outcome = "failed"
    /\ gwCalls[1].error = AllFailedError(AdapterError("A"))

\* The call of C9: round_robin over 2 candidates, made when the request
\* counters summed to 3.
C9_Case(call) ==
    /\ IsRoundRobinCall(call)
    /\ Len(call.candidates) = 2
    /\ RequestsBefore(call) = 3

\* C9 as stated: the call (request #4) is routed to index 4 mod 2 = 0.
C9_Original ==
    \A c \in GatewayCalls : C9_Case(gwCalls[c]) => gwCalls[c].selected = 0

\* C9 amended: with 2 candidates and request counters summing to 3 before
\* the call, round_robin routes the call to index 3 mod 2 = 1 (the second
\* candidate): the request being routed is not counted.
C9_RoundRobinFourthRequest ==
    \A c \in GatewayCalls :
        C9_Case(gwCalls[c]) =>
            /\ gwCalls[c].selected = 1
            /\ gwCalls[c].tried[1].idx = 2
            /\ gwCalls[c].tried[1].name = gwCalls[c].candidates[2].name

\* A round_robin call over [A, B] made when the counters summed to 3 went to B.
C9_Witness ==
    /\ C9_Case(gwCalls[1])
    /\ gwCalls[1].candidates = <<cA, cB>>
    /\ gwCalls[1].tried[1].provider = "B"

\* C10: round_robin routes each call to the single candidate at index (sum
\* of the request counters of all registered providers at the moment of the
\* call, providers outside the candidate list included) mod (number of
\* candidates).
C10_RoundRobinIndex ==
    \A c \in GatewayCalls :
        LET call == gwCalls[c] IN
        IsRoundRobinCall(call) =>
            /\ call.selected = RequestsBefore(call) % Len(call.candidates)
            /\ Len(call.tried) = 1
            /\ call.tried[1].idx = call.selected + 1
            /\ call.tried[1].name = call.candidates[call.selected + 1].name
            /\ call.tried[1].provider =
                    call.candidates[call.selected + 1].provider[
                        Len(call.candidates[call.selected + 1].provider)]

\* The only requests so far went to A, which is not among the candidates
\* [X, B]; the call is routed to index 1.
C10_Witness ==
    /\ IsRoundRobinCall(gwCalls[1])
    /\ gwCalls[1].candidates = <<cX, cB>>
    /\ gwCalls[1].before["A"].requests = 1
    /\ gwCalls[1].before["B"].requests = 0
    /\ gwCalls[1].selected = 1
    /\ gwCalls[1].tried[1].provider = "B"

\* C11: under round_robin, when the selected candidate fails (its adapter
\* call fails or its provider is not registered), complete fails with that
\* candidate's own error and no other candidate has been tried.
C11_RoundRobinNoFallback ==
    \A c \in GatewayCalls :
        LET call == gwCalls[c]
            t == call.tried
        IN  (IsRoundRobinCall(call) /\ t[Len(t)].outcome \in {"failed", "notfound"}) =>
                /\ Len(t) = 1
                /\ t[1].idx = call.selected + 1
                /\ call.status = "threw" => call.error = ErrorOfTried(t[1])
                /\ call.status # "returned"

\* A round_robin call over [A, B] selected A, whose adapter failed, and the
\* call threw A's error; B, which is registered, was not tried.
C11_Witness ==
    /\ IsRoundRobinCall(gwCalls[1])
    /\ gwCalls[1].candidates = <<cA, cB>>
    /\ gwCalls[1].status = "threw"
    /\ gwCalls[1].tried = <<TriedEntry(1, "A", "gpt-4", "failed")>>
    /\ gwCalls[1].error = AdapterError("A")
    /\ "B" \in registry

\* C12: in every reachable state of a RateLimiter, after any sequence of
\* acquire() calls (one after another or overlapping, with or without
\* requests_per_minute), the token count lies in [0, maxTokens].
C12_TokensInRange ==
    /\ 0 <= limiter.tokens
    /\ limiter.tokens <= limiter.maxTokens * MsPerMinute

\* The upper half of C12: refill caps the count at maxTokens and nothing
\* else adds tokens.
C12_TokensAtMostMax == limiter.tokens <= limiter.maxTokens * MsPerMinute

\* Time has passed on a limiter with requests_per_minute and a token taken:
\* the refill was capped at maxTokens.
C12_WitnessCapped ==
    /\ limiter.limits.requests_per_minute # 0
    /\ limiter.maxTokens = 1
    /\ Len(acqLog) >= 2
    /\ acqLog[1].at = 0
    /\ acqLog[2].at >= 1000
    /\ ~acqLog[2].suspended

C14_TimeoutDecides ==
    (/\ securityConfig.sandbox.present
     /\ exec.pc = "settled"
     /\ exec.fn = "pending") =>
        /\ exec.timeoutMs = (IF securityConfig.sandbox.timeout_ms # 0
                             THEN securityConfig.sandbox.timeout_ms ELSE 30000)
        /\ exec.outcome = Rejected(SandboxError(exec.timeoutMs))
        /\ exec.settledAt >= exec.startedAt + exec.timeoutMs

\* C14: with a sandbox configuration, execute of a tool function that never
\* settles fails with a SandboxError once the timeout (timeout_ms, default
\* 30000 ms) has elapsed; tool completion and timer race, the first to
\* settle decides, so that execute always settles whatever the tool
\* function does.
C14_ExecuteAlwaysSettles ==
    /\ [] C14_TimeoutDecides
    /\ (exec.pc = "race") ~> (exec.pc = "settled")

\* A tool function that never settles, under timeout_ms = 10: execute was
\* rejected by the timer.
C14_Witness ==
    /\ toolFn = "never"
    /\ securityConfig.sandbox = [present |-> TRUE, timeout_ms |-> 10]
    /\ exec.pc = "settled"
    /\ exec.fn = "pending"
    /\ exec.outcome = Rejected(SandboxError(10))
    /\ exec.settledAt = 10

\* The agents of a program that handle an event, as declared.
HandlesEvent(block, eventName) ==
    block.type = "agent" /\ HasOnBlock(block, eventName)

\* An emit() call made on the program loaded by the one load so far.
OnSingleLoad(call) == call.status # "idle" /\ call.gen = 1 /\ loads = 1

\* C15: when an emitted event has several agent handlers and the workflow
\* of one handler fails, the other handlers for the same event are still
\* invoked and run to completion.
C15_OtherHandlersStillRun ==
    \A c \in EmitCalls :
        LET call == emits[c] IN
        (OnSingleLoad(call) /\ call.status = "threw") =>
            \A k \in 1..Len(ir.blocks) :
                (/\ HandlesEvent(ir.blocks[k], call.event)
                 /\ ir.blocks[k].identifier # call.h.agent) =>
                    \E n \in 1..Len(call.log) :
                        call.log[n] = HandlerEnd(ir.blocks[k].identifier)

\* The workflow block a program declares under a name.
DeclaresWorkflow(program, name) ==
    \E k \in 1..Len(program.blocks) :
        program.blocks[k].type = "workflow" /\ program.blocks[k].identifier = name

DeclaredWorkflow(program, name) ==
    program.blocks[CHOOSE k \in 1..Len(program.blocks) :
        program.blocks[k].type = "workflow" /\ program.blocks[k].identifier = name]

\* What a strictly sequential dispatch of an event over a program loaded by
\* load number gen does, from the agent at position i of the declaration and
\* the child at position j of its handler: each handler in declaration
\* order, each of its workflows in declaration order, every one ended
\* before the next starts, stopping at the first workflow that fails.
RECURSIVE SequentialDispatch(_, _, _, _, _, _)
SequentialDispatch(program, eventName, gen, i, j, log) ==
    IF i > Len(program.blocks) THEN log
    ELSE LET block == program.blocks[i] IN
         IF ~HandlesEvent(block, eventName)
         THEN SequentialDispatch(program, eventName, gen, i + 1, 0, log)
         ELSE LET children == FindOnBlock(block, eventName).children IN
              IF j = 0
              THEN SequentialDispatch(program, eventName, gen, i, 1,
                        Append(log, HandlerStart(block.identifier)))
              ELSE IF j > Len(children)
              THEN SequentialDispatch(program, eventName, gen, i + 1, 0,
                        Append(log, HandlerEnd(block.identifier)))
              ELSE IF /\ children[j].type = "call"
                      /\ children[j].identifier = "workflow"
                      /\ DeclaresWorkflow(program, children[j].label)
              THEN LET wf == [DeclaredWorkflow(program, children[j].label)
                                EXCEPT !.origin = gen]
                       started == Append(log, WorkflowStart(block.identifier, wf, gen))
                   IN  IF wf.fails
                       THEN Append(started, WorkflowEnd(block.identifier, wf, FALSE))
                       ELSE SequentialDispatch(program, eventName, gen, i, j + 1,
                                Append(started, WorkflowEnd(block.identifier, wf, TRUE)))
              ELSE SequentialDispatch(program, eventName, gen, i, j + 1, log)

IsPrefix(s, t) == Len(s) <= Len(t) /\ SubSeq(t, 1, Len(s)) = s

Initializable(config) ==
    /\ config.apiKey
    /\ config.type = "llm"
    /\ config.vendor \in {"openai", "anthropic"}

\* C17: when a configured provider cannot be initialized (its credential
\* does not resolve or its type is not recognized), that provider alone is
\* left unregistered: once initialization is over, every other configured
\* provider that can be initialized is registered with its usage counters,
\* wherever it stands in the list relative to the failing one.
C17_InitFailureIsolated ==
    initIdx > Len(providerConfigs) =>
        \A k \in 1..Len(providerConfigs) :
            LET config == providerConfigs[k] IN
            /\ Initializable(config) =>
                /\ config.id \in registry
                /\ config.id \in DOMAIN usageStats
                /\ issued = 0 => usageStats[config.id] = ZeroStats
            /\ ~Initializable(config) =>
                /\ config.id \notin registry
                /\ config.id \notin DOMAIN usageStats

\* The first of three providers failed; the two after it are registered.
C17_Witness ==
    /\ Len(providerConfigs) = 3
    /\ initIdx = 4
    /\ ~Initializable(providerConfigs[1])
    /\ providerConfigs[2].id = "A"
    /\ providerConfigs[3].id = "B"
    /\ registry = {"A", "B"}
    /\ DOMAIN usageStats = {"A", "B"}

\* C18: after Runtime.load has been called a second time the runtime's state
\* reflects only the second program: what emit and callWorkflow find in
\* this.blocks, what getPolicy finds in this.policies and the gateway
\* executeAgent uses all come from the last load, and an emit made after it
\* runs no workflow of an earlier program.
C18_ReloadReplacesWholesale ==
    loads >= 2 =>
        /\ \A k \in 1..Len(blocks) : blocks[k].block.origin = loads
        /\ \A id \in DOMAIN policies : policies[id] = loads
        /\ gateway \in {0, loads}
        /\ \A c \in EmitCalls : \A n \in 1..Len(emits[c].log) :
            (emits[c].log[n].ev = "workflow.start" /\ emits[c].log[n].gen = loads) =>
                emits[c].log[n].origin = loads

\* What does hold after a reload: a block, policy or gateway that the last
\* program declares comes from the last load.
C18_LastProgramWins ==
    loads >= 1 =>
        /\ \A k \in 1..Len(ir.blocks) :
            /\ MapHas(blocks, BlockId(ir.blocks[k]))
            /\ MapGet(blocks, BlockId(ir.blocks[k])).origin = loads
        /\ \A id \in ir.policies : id \in DOMAIN policies /\ policies[id] = loads
        /\ ir.providers => gateway = loads

\* After the second load an emit ran workflow w1 of the first program, which
\* the second program does not declare.
C18_WitnessStaleWorkflow ==
    /\ loads = 2
    /\ ~DeclaresWorkflow(ir, "w1")
    /\ \E n \in 1..Len(emits[1].log) :
        /\ emits[1].log[n].ev = "workflow.start"
        /\ emits[1].log[n].workflow = "w1"
        /\ emits[1].log[n].gen = 2
        /\ emits[1].log[n].origin = 1
    /\ gateway = 1
    /\ "p1" \in DOMAIN policies
    /\ "p1" \notin ir.policies

\* The ids of the configured providers declared with rate limits.
DeclaredWithLimits ==
    {providerConfigs[k].id : k \in {j \in 1..Len(providerConfigs) : providerConfigs[j].limits}}

LastAttempt(call) == call.tried[Len(call.tried)]

OnRegisteredProvider(call) ==
    /\ call.status # "idle"
    /\ LastAttempt(call).outcome # "notfound"

ExceedsMaxLength(value, r) ==
    value.t = "string" /\ "max_length" \in DOMAIN r /\ Len(value.s) > r.max_length

BelowMinLength(value, r) ==
    value.t = "string" /\ "min_length" \in DOMAIN r /\ Len(value.s) < r.min_length

MissesPattern(value, r) ==
    value.t = "string" /\ "pattern" \in DOMAIN r /\ value.s \notin r.pattern

MatchesDenied(value, r) ==
    /\ value.t = "string"
    /\ "deny_patterns" \in DOMAIN r
    /\ \E k \in 1..Len(r.deny_patterns) : value.s \in r.deny_patterns[k]

OutOfNumericBounds(value, r) ==
    /\ value.t = "number"
    /\ \/ "min" \in DOMAIN r /\ value.n < r.min
       \/ "max" \in DOMAIN r /\ value.n > r.max

\* Some field of the input that has declared rules breaks one of them.
SomeRuleViolated ==
    \E k \in 1..Len(toolInput) :
        /\ toolInput[k].key \in DOMAIN securityConfig.validate
        /\ LET value == toolInput[k].value
               r == securityConfig.validate[toolInput[k].key]
           IN  \/ ExceedsMaxLength(value, r)
               \/ BelowMinLength(value, r)
               \/ MissesPattern(value, r)
               \/ MatchesDenied(value, r)
               \/ OutOfNumericBounds(value, r)

\* The same, a max_length of 0 not counting as a rule.
SomeEnforcedRuleViolated ==
    \E k \in 1..Len(toolInput) :
        /\ toolInput[k].key \in DOMAIN securityConfig.validate
        /\ LET value == toolInput[k].value
               r == securityConfig.validate[toolInput[k].key]
           IN  \/ ExceedsMaxLength(value, r) /\ r.max_length # 0
               \/ BelowMinLength(value, r)
               \/ MissesPattern(value, r)
               \/ MatchesDenied(value, r)
               \/ OutOfNumericBounds(value, r)

\* execute raised a ValidationError on its input, synchronously and
\* without having called the tool function.
RejectedOnInput ==
    /\ exec.pc = "settled"
    /\ exec.fn = "notcalled"
    /\ exec.timer = "none"
    /\ exec.settledAt = exec.startedAt
    /\ ~exec.outcome.ok
    /\ exec.outcome.value.name = "ValidationError"

\* C21: once execute has been called, it has raised a ValidationError
\* without ever invoking the tool function if some input field with
\* declared rules breaks one of them, and it has invoked the tool function
\* otherwise: a field without rules and a declared field absent from the
\* input are never a reason to reject.
C21_ValidatesBeforeInvoking ==
    exec.pc # "idle" =>
        IF SomeRuleViolated THEN RejectedOnInput ELSE exec.fn # "notcalled"

\* C21, for the rules the validator enforces: as above, a max_length of 0
\* being no rule.
C21_EnforcedRulesBeforeInvoking ==
    exec.pc # "idle" =>
        IF SomeEnforcedRuleViolated THEN RejectedOnInput ELSE exec.fn # "notcalled"

\* An input whose second field breaks its rule was rejected unrun, with a
\* first field that has no rules.
C21_Witness ==
    /\ RejectedOnInput
    /\ Len(toolInput) = 2
    /\ toolInput[1].key \notin DOMAIN securityConfig.validate
    /\ toolInput[2].value = Str("abc")
    /\ exec.outcome.value.message = "matches denied pattern"

\* The value a dotted path leads to: the scope itself for the empty path,
\* the property named by the last segment when every segment before it led
\* to an object that has the next one, and undefined as soon as a segment
\* is missing.
PathValue(path, sc) ==
    LET at[k \in 0..Len(path)] ==
            IF k = 0 THEN Obj(sc)
            ELSE IF at[k - 1].t = "object" /\ path[k] \in DOMAIN at[k - 1].o
                 THEN at[k - 1].o[path[k]]
                 ELSE Undefined
    IN  at[Len(path)]

\* The last property of a map expression that has the key.
LastWithKey(properties, key) ==
    properties[CHOOSE i \in 1..Len(properties) :
        /\ properties[i].key = key
        /\ \A j \in (i + 1)..Len(properties) : properties[j].key # key]

\* What the evaluation of an expression yields, its subexpressions being
\* evaluated against the same scope.
YieldsAsSpecified(expr, sc, value) ==
    CASE expr.kind = "Literal" -> value = expr.value
      [] expr.kind = "Reference" -> value = PathValue(expr.path, sc)
      [] expr.kind = "List" ->
            /\ value.t = "array"
            /\ Len(value.l) = Len(expr.elements)
            /\ \A i \in 1..Len(expr.elements) :
                    value.l[i] = evaluateExpression(expr.elements[i], sc)
      [] expr.kind = "Map" ->
            /\ value.t = "object"
            /\ DOMAIN value.o = {expr.properties[i].key : i \in 1..Len(expr.properties)}
            /\ \A key \in DOMAIN value.o :
                    value.o[key] =
                        evaluateExpression(LastWithKey(expr.properties, key).value, sc)
      [] OTHER -> value = Null

\* C22: evaluateExpression returns for every expression and scope without
\* raising; a Reference yields the value its path leads to in the scope and
\* undefined when a segment is missing (path [a, b] yields 5 against
\* {a: {b: 5}} and undefined against {a: {}}); a List or Map yields the
\* values of its elements in order and under their keys; any other kind
\* yields null; the scope is what it was before the call.
C22_EvaluateExpressionTotal ==
    evalResult.done =>
        /\ evalResult.value.t # "error"
        /\ YieldsAsSpecified(evalExpr, evalScope, evalResult.value)
        /\ evalScope = evalResult.before
        /\ (evalExpr = Reference(<<"a", "b">>) /\ evalResult.before = [a |-> Obj([b |-> Num(5)])])
                => evalResult.value = Num(5)
        /\ (evalExpr = Reference(<<"a", "b">>) /\ evalResult.before = [a |-> Obj(<<>>)])
                => evalResult.value = Undefined

\* The path [a, b, c] has been resolved against {a: {}}: its second
\* segment is missing and a third one follows.
C22_Witness ==
    /\ evalResult.done
    /\ evalExpr = ListExpression(<<Reference(<<"a", "b", "c">>), Reference(<<"a", "b">>)>>)
    /\ evalScope = [a |-> Obj(<<>>)]
    /\ evalResult.value = List(<<Undefined, Undefined>>)

\* The ids of the configured providers that createProvider can create.
InitializableIds ==
    {providerConfigs[k].id : k \in {j \in 1..Len(providerConfigs) :
                                        Initializable(providerConfigs[j])}}

\* C23: from the return of the constructor on, every configured provider
\* that can be initialized is registered with its counter record (so that
\* the registry gains no entry afterwards), and no complete() call has
\* failed with Provider-not-found on such a provider.
C23_RegisteredAtConstruction ==
    /\ InitializableIds \subseteq registry
    /\ InitializableIds \subseteq DOMAIN usageStats
    /\ \A c \in GatewayCalls : \A k \in 1..Len(gwCalls[c].tried) :
            gwCalls[c].tried[k].outcome = "notfound"
                => gwCalls[c].tried[k].provider \notin InitializableIds

\* A complete("A/gpt-4") made before initializeProviders has reached A has
\* failed with Provider-not-found, A being a provider that can be created.
C23_WitnessNotFound ==
    \E c \in GatewayCalls :
        /\ gwCalls[c].status = "threw"
        /\ gwCalls[c].simple
        /\ gwCalls[c].error = NotFoundError("A")
        /\ "A" \in InitializableIds
        /\ initIdx = 1

\* Two acquire() calls that overlapped: both found the bucket exhausted at
\* the same instant, and both returned at the very end of their wait.
OverlappedAcquires(j, k) ==
    /\ j < k
    /\ acqLog[j].suspended
    /\ acqLog[k].suspended
    /\ acqLog[j].at = acqLog[k].at
    /\ acqLog[j].returned = acqLog[j].at + acqLog[j].wait
    /\ acqLog[k].returned = acqLog[k].at + acqLog[k].wait

\* C24: two acquire() calls that find the bucket exhausted at the same
\* instant wait the same window, and when both have returned at its end
\* (no other call having been made since) the limiter has granted more
\* permits than it had tokens: at most one token is refilled during the
\* window and two are taken, which leaves the count below zero.
C24_BothProceedAfterOneWindow ==
    \A j, k \in 1..Len(acqLog) :
        (acqLog[j].suspended /\ acqLog[k].suspended /\ acqLog[j].at = acqLog[k].at)
            => /\ acqLog[j].wait = acqLog[k].wait
               /\ acqLog[j].wait * limiter.limits.requests_per_minute <= MsPerMinute
               /\ (OverlappedAcquires(j, k) /\ k = Len(acqLog)) => limiter.tokens < 0

\* At 60 per minute and capacity 1, after one acquire() two more were made
\* at time 0; both waited 1000 ms and both returned at 1000, where one
\* token had been refilled: the count is -1.
C24_Witness ==
    /\ limiter.limits.requests_per_minute = 60
    /\ limiter.maxTokens = 1
    /\ Len(acqLog) = 3
    /\ OverlappedAcquires(2, 3)
    /\ acqLog[2].caller # acqLog[3].caller
    /\ acqLog[3].returned = 1000
    /\ limiter.tokens = -MsPerMinute

\* C25: once the timer has decided the race of a tool step's execute, the
\* tool function, if it has not settled yet, can still settle (it is not
\* cancelled); whether or not it has settled since, the outcome of execute
\* stays the SandboxError, nothing is bound under the step name, the audit
\* log holds no success event, and once executeTool has gone on the
\* workflow has failed with that error and the audit log holds the failure
\* event of the step.
C25_LateResultDiscarded ==
    exec.by = "timer" =>
        /\ exec.pc = "settled"
        /\ exec.outcome = Rejected(SandboxError(exec.timeoutMs))
        /\ (exec.fn = "pending" /\ toolFn = "settles") => ENABLED ToolFnSettle
        /\ exec.fn \in {"pending", "resolved", "rejected"}
        /\ "s1" \notin DOMAIN scope[1]
        /\ \A k \in 1..Len(auditLog) : ~auditLog[k].success
        /\ wfStatus[1] \in {"running", "threw"}
        /\ calls[1] = {} =>
            /\ wfStatus[1] = "threw"
            /\ wfResult[1] = SandboxError(exec.timeoutMs)
            /\ auditLog = <<ToolCallEvent("safe", FALSE, "Tool execution timeout")>>

\* The timer fired first, the workflow failed with the SandboxError, and
\* the tool function resolved afterwards: the step is still unbound and
\* the audit log holds the failure event alone.
C25_Witness ==
    /\ exec.by = "timer"
    /\ exec.fn = "resolved"
    /\ calls[1] = {}
    /\ wfStatus[1] = "threw"
    /\ wfResult[1] = SandboxError(10)
    /\ Len(auditLog) = 1
    /\ "s1" \notin DOMAIN scope[1]

IsSettle(e) == e.ev = "settle"

\* The tool steps of invocation 1 that have ended, in order, each with the
\* audit event it calls for: a success event, or a failure event carrying
\* the message of the step's error.
EndedToolSteps == SelectSeq(trace[1], IsSettle)

ExpectedEvent(e) ==
    ToolCallEvent(Steps(1)[e.step].value.identifier, e.outcome.ok,
                  IF e.outcome.ok THEN "" ELSE e.outcome.value.message)

IsNotFound(e) == ~e.outcome.ok /\ e.outcome.value.message = "Tool not found"

IsAudited(e) == ~IsNotFound(e)

\* C26: every tool step that has ended, for whatever reason, has exactly
\* one tool.call event in the audit log, in step order: a failure event
\* with the error's message if it failed, a success event if it succeeded;
\* so the event is there when the workflow has failed with the step's
\* error or holds the step's result.
C26_EveryToolStepAudited ==
    /\ Len(auditLog) = Len(EndedToolSteps)
    /\ \A k \in 1..Len(EndedToolSteps) : auditLog[k] = ExpectedEvent(EndedToolSteps[k])
    /\ wfStatus[1] = "threw" =>
        /\ auditLog # <<>>
        /\ ~auditLog[Len(auditLog)].success
        /\ auditLog[Len(auditLog)].error = wfResult[1].message

\* C26, for the tools that are declared: as above for every ended tool step
\* other than one that failed with Tool-not-found, which has no event.
C26_DeclaredToolStepAudited ==
    LET audited == SelectSeq(EndedToolSteps, IsAudited) IN
    /\ Len(auditLog) = Len(audited)
    /\ \A k \in 1..Len(audited) : auditLog[k] = ExpectedEvent(audited[k])
    /\ (wfStatus[1] = "threw" /\ wfResult[1].message # "Tool not found") =>
        /\ auditLog # <<>>
        /\ ~auditLog[Len(auditLog)].success
        /\ auditLog[Len(auditLog)].error = wfResult[1].message
    /\ \A name \in DOMAIN scope[1] \ {"input"} :
            \E k \in 1..Len(audited) :
                /\ audited[k].outcome = Resolved(scope[1][name])
                /\ auditLog[k].success

\* The tool resolved with an output above the size limit: the step failed
\* with the output's ValidationError, which the audit log holds.
C26_Witness ==
    /\ wfStatus[1] = "threw"
    /\ exec.fn = "resolved"
    /\ exec.by = "toolFn"
    /\ wfResult[1] = Error("ValidationError", "Output size exceeds limit")
    /\ auditLog = <<ToolCallEvent("safe", FALSE, "Output size exceeds limit")>>

\* An entry the resolver resolves to a value.
Resolvable(v) == v.kind \in {"env", "secrets"} /\ v.resolves

\* The position of the first entry of a block that resolves, and of the
\* first that is a reference; 0 if there is none.
FirstResolvable(entries) ==
    IF \E k \in 1..Len(entries) : Resolvable(entries[k])
    THEN CHOOSE k \in 1..Len(entries) :
            Resolvable(entries[k]) /\ \A j \in 1..(k - 1) : ~Resolvable(entries[j])
    ELSE 0

FirstReference(entries) ==
    IF \E k \in 1..Len(entries) : IsReference(entries[k])
    THEN CHOOSE k \in 1..Len(entries) :
            IsReference(entries[k]) /\ \A j \in 1..(k - 1) : ~IsReference(entries[j])
    ELSE 0

\* C27: for a provider whose credentials are a block, the apiKey is the
\* value of the first entry, in property order, that the resolver resolves
\* to a value, and createProvider does not throw "No credentials found"
\* when the block has such an entry.
C27_FirstResolvableWins ==
    (credResult.done /\ credentials.form = "block") =>
        /\ credResult.apiKey = FirstResolvable(credentials.entries)
        /\ FirstResolvable(credentials.entries) # 0 => ~credResult.thrown

\* C27, as createProvider resolves a block: the one entry looked up is the
\* first that is a reference (has `type` and `ref`); its value is the
\* apiKey if it resolves, and otherwise createProvider throws, whatever
\* the entries after it.
C27_FirstReferenceDecides ==
    (credResult.done /\ credentials.form = "block") =>
        LET k == FirstReference(credentials.entries) IN
        IF k # 0 /\ Resolvable(credentials.entries[k])
        THEN credResult.apiKey = k /\ ~credResult.thrown
        ELSE credResult.apiKey = 0 /\ credResult.thrown

\* A block whose first entry is no reference, whose second is a reference
\* that does not resolve and whose third resolves: createProvider threw.
C27_Witness ==
    /\ credResult.done
    /\ credentials.form = "block"
    /\ Len(credentials.entries) = 3
    /\ ~IsReference(credentials.entries[1])
    /\ credentials.entries[2] = [kind |-> "env", resolves |-> FALSE]
    /\ Resolvable(credentials.entries[3])
    /\ credResult.thrown

\* The steps of invocation i that execute skips: no block invocation, or a
\* block invocation of a type other than tool, agent or capability.
SkippedSteps(i) == {k \in 1..Len(Steps(i)) : ~IsExecutable(StepAt(i, k).value)}

\* C28: a step that is not a block invocation of type tool, agent or
\* capability is skipped without raising: no call is started for it and
\* its name is not bound in the scope; an execute that has thrown did so
\* with the error of a step call that failed; and an execute that has
\* returned has run every executable step, those after a skipped step
\* included, and bound its result.
C28_UnknownStepsSkipped ==
    \A i \in Invocations :
        /\ \A k \in SkippedSteps(i) :
            /\ \A p \in 1..Len(trace[i]) : trace[i][p].step # k
            /\ StepAt(i, k).key \notin DOMAIN scope[i]
        /\ wfStatus[i] = "threw" =>
            \E p \in 1..Len(trace[i]) :
                /\ trace[i][p].ev = "settle"
                /\ trace[i][p].outcome = Rejected(wfResult[i])
                /\ trace[i][p].step \notin SkippedSteps(i)
        /\ (wfStatus[i] = "returned" /\ workflow[i].hasSteps) =>
            \A k \in (1..Len(Steps(i))) \ SkippedSteps(i) :
                /\ \E p \in 1..Len(trace[i]) :
                        trace[i][p].ev = "settle" /\ trace[i][p].step = k
                            /\ trace[i][p].outcome.ok
                /\ StepAt(i, k).key \in DOMAIN wfResult[i].o
                /\ \A j \in SkippedSteps(i) : StepAt(i, j).key \notin DOMAIN wfResult[i].o

\* A workflow of a block invocation of an unknown type, a reference and a
\* tool step has returned: only the tool step is bound.
C28_Witness ==
    /\ wfStatus[1] = "returned"
    /\ Len(Steps(1)) = 3
    /\ StepAt(1, 1).value = BlockExpression("custom", "x", <<>>)
    /\ StepAt(1, 2).value = Reference(<<"s1">>)
    /\ StepAt(1, 3).value = BlockExpression("tool", "echo", <<Attribute("x", Literal(Num(10)))>>)
    /\ wfResult[1] = Obj([input |-> WorkflowInput, s3 |-> Num(10)])

IsNoPolicyCheck(e) == e.event # "agent.policy_check"

RunOver(r) == agentRuns[r].pc \in {"returned", "threw"}

\* C29: two runs of executeAgent on the same agent and runtime, whatever
\* the contents of their policies, make the same gateway call and end the
\* same way with the same result or error; their audit events are the same
\* but for agent.policy_check events, which have success = true, and are
\* the same altogether when both agents reference a policy or neither does.
C29_PolicyContentsIgnored ==
    (RunOver(1) /\ RunOver(2)) =>
        /\ agentRuns[1].call = agentRuns[2].call
        /\ agentRuns[1].pc = agentRuns[2].pc
        /\ agentRuns[1].result = agentRuns[2].result
        /\ SelectSeq(agentRuns[1].log, IsNoPolicyCheck)
                = SelectSeq(agentRuns[2].log, IsNoPolicyCheck)
        /\ \A r \in {1, 2} : \A k \in 1..Len(agentRuns[r].log) :
                agentRuns[r].log[k].event = "agent.policy_check"
                    => agentRuns[r].log[k].success
        /\ ((agentRuns[1].policyRef = "none") = (agentRuns[2].policyRef = "none"))
                => agentRuns[1].log = agentRuns[2].log

\* Two runs have returned the gateway's response, one under a policy that
\* denies the agent's tool and one under a policy without lists, both
\* having logged the policy check.
C29_Witness ==
    /\ agentRuns[1].pc = "returned"
    /\ agentRuns[2].pc = "returned"
    /\ agentRuns[1].policy = ToolPolicy(IdList({"r1"}), NoList)
    /\ agentRuns[2].policy = ToolPolicy(NoList, NoList)
    /\ agentRuns[1].policyRef = "string"
    /\ agentRuns[2].policyRef = "object"
    /\ agentRuns[1].log[1] = AgentEvent("agent.policy_check", TRUE, "p1")
    /\ agentRuns[1].log = agentRuns[2].log
    /\ agentRuns[1].call = agentRuns[2].call

IsCostOptimizedCall(call) ==
    /\ call.status # "idle"
    /\ ~call.simple
    /\ call.strategy = "cost_optimized"

\* `order` lists the candidates of `cands` by ascending cost estimate,
\* candidates of equal cost in the relative order they have in `cands`.
IsStableCostOrder(order, cands) ==
    /\ Len(order) = Len(cands)
    /\ \E pi \in [1..Len(cands) -> 1..Len(cands)] :
        /\ \A k \in 1..Len(cands) : order[k] = cands[pi[k]]
        /\ \A k, l \in 1..Len(cands) :
            k < l =>
                \/ estimateCost(cands[pi[k]].name) < estimateCost(cands[pi[l]].name)
                \/ /\ estimateCost(cands[pi[k]].name) = estimateCost(cands[pi[l]].name)
                   /\ pi[k] < pi[l]

\* C30: a cost_optimized call walks its candidates by ascending cost
\* estimate, candidates of equal cost in their declared order, and walks
\* that order as failover does: one candidate at a time, the next only
\* after the previous one failed, returning the first success and throwing
\* only after the last candidate; the candidate list of the model
\* configuration stays as declared.
C30_CostOptimizedOrder ==
    \A c \in GatewayCalls :
        LET call == gwCalls[c]
            t == call.tried
        IN  IsCostOptimizedCall(call) =>
                /\ call.candidates \in CandidateLists
                /\ IsStableCostOrder(call.order, call.candidates)
                /\ Len(t) <= Len(call.order)
                /\ \A k \in 1..Len(t) :
                    /\ t[k].idx = k
                    /\ t[k].provider = extractProviderId(call.order[k].provider)
                    /\ t[k].name = call.order[k].name
                    /\ k < Len(t) => t[k].outcome \in {"failed", "notfound"}
                /\ call.status = "returned" =>
                    /\ t[Len(t)].outcome = "ok"
                    /\ call.response.provider = t[Len(t)].provider
                    /\ call.response.model = t[Len(t)].name
                /\ call.status = "threw" =>
                    /\ Len(t) = Len(call.order)
                    /\ t[Len(t)].outcome \in {"failed", "notfound"}

\* A cost_optimized call over [gpt-4, claude-3-haiku, gpt-3.5-turbo] tried
\* claude-3-haiku first, which failed, and returned gpt-3.5-turbo's
\* response without trying gpt-4.
C30_Witness ==
    /\ IsCostOptimizedCall(gwCalls[1])
    /\ gwCalls[1].candidates = <<cA, cB, cA2>>
    /\ gwCalls[1].order = <<cB, cA2, cA>>
    /\ gwCalls[1].status = "returned"
    /\ Len(gwCalls[1].tried) = 2
    /\ gwCalls[1].tried[1].outcome = "failed"
    /\ gwCalls[1].response.model = "gpt-3.5-turbo"

\* The strategies that completeWithStrategy hands to failoverStrategy with
\* the candidates as they are: failover, latency_optimized, an absent
\* strategy and an unrecognized one.
RunsAsFailover(call) ==
    /\ call.status # "idle"
    /\ ~call.simple
    /\ call.strategy \in {"failover", "latency_optimized", "", "fastest"}

CountTried(t, p, outcomes) ==
    Cardinality({k \in 1..Len(t) : t[k].provider = p /\ t[k].outcome \in outcomes})

\* What a call has done, as a function of its candidates and of how the
\* providers behaved, with no mention of the strategy: the invocations in
\* candidate order, the result or error, and the change of every counter
\* since the call was made.
FailoverBehaviour(call) ==
    LET t == call.tried IN
    /\ call.order = call.candidates
    /\ Len(t) <= Len(call.candidates)
    /\ \A k \in 1..Len(t) :
        /\ t[k].provider = extractProviderId(call.candidates[k].provider)
        /\ t[k].name = call.candidates[k].name
        /\ k < Len(t) => t[k].outcome \in {"failed", "notfound"}
    /\ call.status = "returned" =>
        /\ t[Len(t)].outcome = "ok"
        /\ call.response.provider = t[Len(t)].provider
        /\ call.response.model = t[Len(t)].name
    /\ call.status = "threw" =>
        /\ Len(t) = Len(call.candidates)
        /\ call.error = AllFailedError(
                IF t[Len(t)].outcome = "notfound"
                THEN NotFoundError(t[Len(t)].provider)
                ELSE AdapterError(t[Len(t)].provider))
    /\ \A p \in ProviderIds :
        LET s == StatsOf(usageStats, p) IN
        /\ s.requests = call.before[p].requests
                            + CountTried(t, p, {"invoked", "ok", "failed"})
        /\ s.errors = call.before[p].errors + CountTried(t, p, {"failed"})
        /\ s.tokens = call.before[p].tokens
                        + IF call.status = "returned" /\ call.response.provider = p
                             /\ call.response.usage.present
                          THEN call.response.usage.total_tokens ELSE 0

\* C31: a latency_optimized call, and a call with an absent or unrecognized
\* strategy, invokes the providers, ends and changes the counters exactly as
\* a failover call does for the same candidates, provider behaviours and
\* initial counters: for all of them the same function of the candidates
\* and the provider behaviours gives the invocations, the result or error
\* and the counter changes.
C31_LatencyOptimizedIsFailover ==
    \A c \in GatewayCalls : RunsAsFailover(gwCalls[c]) => FailoverBehaviour(gwCalls[c])

\* A latency_optimized call over [A, B] returned B's response after A's
\* adapter had failed.
C31_Witness ==
    /\ gwCalls[1].strategy = "latency_optimized"
    /\ ~gwCalls[1].simple
    /\ gwCalls[1].candidates = <<cA, cB>>
    /\ gwCalls[1].status = "returned"
    /\ Len(gwCalls[1].tried) = 2
    /\ gwCalls[1].tried[1].outcome = "failed"
    /\ gwCalls[1].response.provider = "B"
    /\ usageStats["A"].errors = gwCalls[1].before["A"].errors + 1

\* execute was called on a tool without sandbox configuration and its
\* input passed the validation.
RunsDirectly ==
    /\ ~securityConfig.sandbox.present
    /\ exec.pc # "idle"
    /\ exec.by # "validate"

\* C32: without a sandbox configuration execute arms no timer and settles
\* exactly when the tool function settles: while the tool function is
\* pending execute is pending, and once it has settled execute has settled
\* by it.  With a tool function that never settles, the tool step stays in
\* flight and the workflow stays running, however much time passes.
C32_NoSandboxNoTimeout ==
    RunsDirectly =>
        /\ exec.timer = "none"
        /\ exec.by # "timer"
        /\ ~ENABLED TimerFire
        /\ (exec.fn = "pending") = (exec.pc = "direct")
        /\ (exec.fn \in {"resolved", "rejected"}) = (exec.pc = "settled")
        /\ exec.pc = "settled" => exec.by = "toolFn"
        /\ toolFn = "never" =>
            /\ exec.pc = "direct"
            /\ calls[1] # {}
            /\ wfStatus[1] = "running"
            /\ ~ENABLED ToolStepSettle(1)
            /\ ~ENABLED Return(1)
            /\ auditLog = <<>>

\* A tool without sandbox configuration whose function never settles was
\* called at time 0; at the end of the clock, past the default timeout,
\* the step is still in flight and the workflow still running.
C32_Witness ==
    /\ RunsDirectly
    /\ toolFn = "never"
    /\ exec.startedAt = 0
    /\ now = MaxSandboxNow
    /\ now > DefaultTimeoutMs
    /\ exec.pc = "direct"
    /\ wfStatus[1] = "running"

\* A host allow-list is configured: network_hosts is present and not empty.
HasAllowList(config) ==
    config.network_hosts.present /\ Len(config.network_hosts.list) > 0

\* The host is the allowed host, or the allowed host preceded by a dot and
\* by whatever comes before.
IsHostOrSubdomain(host, allowedHost) ==
    \/ host = allowedHost
    \/ \E prefix \in Hosts : host = prefix \o <<".">> \o allowedHost

OnAllowList(config, host) ==
    \E k \in 1..Len(config.network_hosts.list) :
        IsHostOrSubdomain(host, config.network_hosts.list[k])

\* C33: checkNetworkAccess(host) succeeds only when the sandbox's network
\* access is enabled and, if a host allow-list is configured, the host is
\* an allowed host or a sub-domain of one; in every other case it raises a
\* SandboxError.
C33_NetworkAccessGuard ==
    guardResult # NotChecked =>
        IF /\ guardConfig.present
           /\ guardConfig.network_allowed
           /\ HasAllowList(guardConfig) => OnAllowList(guardConfig, guardHost)
        THEN guardResult = Allowed
        ELSE guardResult.name = "SandboxError"

\* C33, for a sandbox that has a configuration: the check succeeds exactly
\* when network access is enabled and the host is on the allow-list, if one
\* is configured, and raises a SandboxError otherwise; without a sandbox
\* configuration the check succeeds for every host.
C33_GuardOfConfiguredSandbox ==
    guardResult # NotChecked =>
        IF guardConfig.present
        THEN IF /\ guardConfig.network_allowed
                /\ HasAllowList(guardConfig) => OnAllowList(guardConfig, guardHost)
             THEN guardResult = Allowed
             ELSE guardResult.name = "SandboxError"
        ELSE guardResult = Allowed

\* The host b.a passed the check against the allow-list [a], as a
\* sub-domain of a.
C33_Witness ==
    /\ guardConfig.present
    /\ guardConfig.network_allowed
    /\ guardConfig.network_hosts = [present |-> TRUE, list |-> <<<<"a">>>>]
    /\ guardHost = <<"b", ".", "a">>
    /\ guardResult = Allowed

\* The scope of invocation i after the first n events of its own history:
\* its input, and the results of its own steps that resolved, under their
\* step names.
RECURSIVE OwnScope(_, _)
OwnScope(i, n) ==
    IF n = 0 THEN [input |-> InputOf(i)]
    ELSE LET e == trace[i][n]
             prev == OwnScope(i, n - 1)
         IN  IF e.ev = "settle" /\ e.outcome.ok
             THEN (Steps(i)[e.step].key :> e.outcome.value) @@ prev
             ELSE prev

\* C34: two invocations that interleave at their suspension points keep
\* separate scopes: the inputs every step was started with are its
\* references evaluated on the input and the earlier step results of its
\* own invocation, the scope of an invocation holds its own input and step
\* results and nothing else, and that scope is what the invocation returns.
C34_ScopesAreIndependent ==
    \A i \in Invocations :
        /\ wfStatus[i] # "idle" /\ workflow[i].hasSteps =>
                scope[i] = OwnScope(i, Len(trace[i]))
        /\ \A n \in 1..Len(trace[i]) :
                trace[i][n].ev = "start" =>
                    trace[i][n].inputs =
                        EvaluateInputs(Steps(i)[trace[i][n].step].value, OwnScope(i, n - 1))
        /\ wfStatus[i] = "returned" /\ workflow[i].hasSteps =>
                wfResult[i] = Obj(OwnScope(i, Len(trace[i])))

\* Both invocations run the workflow [echo, pass(s1)] and both are
\* suspended in their second step: the first one's first step resolved to
\* 10 and the second one's to 20, and each second step was handed the
\* result of its own first step.
C34_Witness ==
    /\ Steps(1) = Steps(2)
    /\ InputOf(1) # InputOf(2)
    /\ Steps(1)[2].value = PassStep(<<"s1">>)
    /\ scope[1] = [input |-> InputOf(1), s1 |-> Num(10)]
    /\ scope[2] = [input |-> InputOf(2), s1 |-> Num(20)]
    /\ \E c \in calls[1] : c.step = 2 /\ c.inputs = [x |-> Num(10)]
    /\ \E c \in calls[2] : c.step = 2 /\ c.inputs = [x |-> Num(20)]

\* In this step call c has entered completeWithProvider for a candidate.
EntersProvider(c) ==
    /\ gwCalls'[c].tried # gwCalls[c].tried
    /\ gwCalls'[c].snaps # gwCalls[c].snaps

\* The candidate call c has entered completeWithProvider for in this step.
Entered(c) == gwCalls'[c].tried[Len(gwCalls'[c].tried)]

\* C35: completeWithProvider for a provider id that is not registered fails
\* with the Not-Found error of that id: no permit is taken, no adapter is
\* invoked, and every usage counter and every limiter is left as it was.
C35_NotFoundTouchesNothing ==
    [][\A c \in GatewayCalls :
        EntersProvider(c) /\ Entered(c).provider \notin registry =>
            /\ Entered(c).outcome = "notfound"
            /\ gwCalls'[c].phase = "rejected"
            /\ gwCalls'[c].pending = NotFoundError(Entered(c).provider)
            /\ usageStats' = usageStats
            /\ rateLimiters' = rateLimiters
            /\ registry' = registry]_vars

\* A call for the unregistered provider X on a gateway with registered
\* providers has failed with Provider not found: X; the counters of A
\* and B and A's limiter are as the call found them.
C35_Witness ==
    /\ registry = {"A", "B"}
    /\ gwCalls[1].status = "threw"
    /\ gwCalls[1].simple
    /\ gwCalls[1].error = NotFoundError("X")
    /\ gwCalls[1].tried = <<TriedEntry(1, "X", "local-model", "notfound")>>
    /\ \A p \in {"A", "B"} : usageStats[p] = gwCalls[1].before[p]
    /\ usageStats["A"].requests > 0
    /\ "X" \notin DOMAIN usageStats

\* The calls in flight on provider p: counted as requests, their adapter
\* call not yet settled.
InFlight(p) ==
    {c \in GatewayCalls :
        /\ gwCalls[c].status = "running"
        /\ gwCalls[c].phase = "calling"
        /\ CurrentProvider(c) = p}

\* C36: for every provider, whatever the strategies and the interleaving of
\* the complete() calls, errors <= requests, and requests is the number of
\* its adapter calls that succeeded plus its errors plus its calls in
\* flight; so with no call in flight on the provider, requests equals its
\* successes plus its errors.
C36_RequestsBalance ==
    \A p \in DOMAIN usageStats :
        /\ usageStats[p].errors <= usageStats[p].requests
        /\ usageStats[p].requests
                = adapterOk[p] + usageStats[p].errors + Cardinality(InFlight(p))
        /\ InFlight(p) = {} =>
                usageStats[p].requests = adapterOk[p] + usageStats[p].errors

\* Two calls of different strategies are in progress at once: provider A
\* has failed the request of one, which is now in flight on B, and the
\* request of the other is in flight on A.
C36_Witness ==
    /\ gwCalls[1].status = "running"
    /\ gwCalls[2].status = "running"
    /\ gwCalls[1].strategy # gwCalls[2].strategy
    /\ {"A", "B"} \subseteq DOMAIN usageStats
    /\ usageStats["A"].requests = 2
    /\ usageStats["A"].errors = 1
    /\ adapterOk["A"] = 0
    /\ Cardinality(InFlight("A")) = 1
    /\ Cardinality(InFlight("B")) = 1

\* The first n events of the two runtimes' histories are the same: their
\* tools and agents have behaved alike so far.
SameSoFar(n) == SubSeq(trace[1], 1, n) = SubSeq(trace[2], 1, n)

\* A failure raised by executeTool itself, before any call is started.
IsSynchronous(i, n) ==
    /\ trace[i][n].ev = "settle"
    /\ \A m \in 1..(n - 1) :
            ~(trace[i][m].ev = "start" /\ trace[i][m].step = trace[i][n].step)

\* The tool of step k of the workflow is refused by the policy of runtime 1.
RefusedByPolicy(k) ==
    /\ Steps(1)[k].value.kind = "BlockExpression"
    /\ Steps(1)[k].value.type = "tool"
    /\ checkToolAccess(policy[1], Steps(1)[k].value.identifier) # NoError

SelectedUnregistered(call) ==
    /\ ~call.simple
    /\ call.strategy = "round_robin"
    /\ call.status = "threw"
    /\ call.error = NotFoundError(
            extractProviderId(call.candidates[call.selected + 1].provider))

\* Such a call has left every counter as it found it, so the index the
\* next round_robin call over the same candidates computes is the same.
StuckOnUnregistered(call) ==
    SelectedUnregistered(call) =>
        /\ \A p \in ProviderIds : StatsOf(usageStats, p) = call.before[p]
        /\ Len(call.tried) = 1
        /\ RoundRobinIndex(TotalRequests(usageStats, call.candidates),
                           Len(call.candidates)) = call.selected

\* In this step the call after `call`, the next one on the gateway, is made
\* with round_robin over the same candidates.
NextCallIsSame(c) ==
    /\ issued' = issued + 1
    /\ ~gwCalls'[c].simple
    /\ gwCalls'[c].strategy = "round_robin"
    /\ gwCalls'[c].candidates = gwCalls[c].candidates

\* C38: a round_robin call whose selected candidate names an unregistered
\* provider fails leaving every request counter unchanged; the next
\* round_robin call over the same candidates, with no other traffic in
\* between, selects the same candidate and, the provider being still
\* unregistered, fails in the same way without trying any other candidate.
C38_RoundRobinStuck ==
    [][\A c \in GatewayCalls :
        /\ StuckOnUnregistered(gwCalls[c])'
        /\ (SelectedUnregistered(gwCalls[c]) /\ NextCallIsSame(c)) =>
                /\ gwCalls'[c].selected = gwCalls[c].selected
                /\ gwCalls[c].tried[1].provider \notin registry =>
                    /\ gwCalls'[c].tried = gwCalls[c].tried
                    /\ gwCalls'[c].pending = gwCalls[c].error
                    /\ gwCalls'[c].phase = "rejected"
                    /\ usageStats' = usageStats]_vars

\* The third call on the gateway, a round_robin call over [X, B], has
\* failed with Provider not found: X; no call has counted a request, and
\* B is registered and has never been invoked.
C38_Witness ==
    /\ SelectedUnregistered(gwCalls[1])
    /\ gwCalls[1].candidates = <<cX, cB>>
    /\ gwCalls[1].selected = 0
    /\ issued = 3
    /\ "B" \in registry
    /\ "X" \notin registry
    /\ \A p \in DOMAIN usageStats : usageStats[p].requests = 0

\* Every acquire() of the history returned at once, or was suspended once
\* for the wait computed at its suspension and has not returned before the
\* end of that wait; a suspended caller's timer is the one of its entry,
\* and once it is due the caller can go on whatever the bucket holds.
WaitsOnce ==
    /\ \A k \in 1..Len(acqLog) :
        IF acqLog[k].suspended
        THEN acqLog[k].returned = -1 \/ acqLog[k].returned >= acqLog[k].at + acqLog[k].wait
        ELSE acqLog[k].returned = acqLog[k].at
    /\ \A p \in Acquirers :
        acq[p].pc = "waiting" =>
            /\ acqLog[acq[p].entry].returned = -1
            /\ acq[p].wakeAt = acqLog[acq[p].entry].at + acqLog[acq[p].entry].wait
            /\ now >= acq[p].wakeAt => ENABLED AcquireResume(p)

\* The step a suspended caller takes ends its acquire(): one token is
\* taken from the refilled bucket, below one token or not, and the call
\* returns.
ResumeReturns ==
    \A p \in Acquirers :
        (acq[p].pc = "waiting" /\ acq'[p] # acq[p]) =>
            /\ acq'[p].pc = "idle"
            /\ limiter'.tokens = refill(limiter, now).tokens - MsPerMinute
            /\ acqLog'[acq[p].entry].returned = now

\* C39: every acquire() suspends at most once and then returns: after its
\* single wait it takes one token and completes even if the bucket is still
\* below one token, so a suspended acquire() whose wait ends within the
\* clock's range eventually returns.
C39_AcquireWaitsAtMostOnce ==
    /\ []WaitsOnce
    /\ [][ResumeReturns]_vars
    /\ \A p \in {1, 2} :
        (acq[p].pc = "waiting" /\ acq[p].wakeAt <= MaxNow) ~> (acq[p].pc = "idle")

\* A suspended acquire() has just returned after its wait, leaving the
\* bucket below zero.
C39_Witness ==
    \E k \in 1..Len(acqLog) :
        /\ acqLog[k].suspended
        /\ acqLog[k].returned = now
        /\ acqLog[k].returned = acqLog[k].at + acqLog[k].wait
        /\ acq[acqLog[k].caller].pc = "idle"
        /\ limiter.tokens < 0

\* What one wait window refills short of one token (in 1/60000 token): the
\* timer runs for the whole milliseconds of 60000 / requests_per_minute.
WaitShortfall(l) ==
    MsPerMinute - getWaitTime(l) * l.limits.requests_per_minute

Suspensions == Cardinality({k \in 1..Len(acqLog) : acqLog[k].suspended})

\* C40: with requests_per_minute configured and the acquire() calls made
\* strictly one after another, the token count never goes below 0 and never
\* exceeds maxTokens.
C40_TokensWithinBounds ==
    /\ limiter.tokens >= 0
    /\ limiter.tokens <= limiter.maxTokens * MsPerMinute

\* C40, as the code has it: the token count never exceeds maxTokens, and
\* it is below 0 by at most what the wait windows so far have refilled
\* short of one token each: never below 0 when 60000 / requests_per_minute
\* is a whole number of milliseconds.
C40_TokensWithinShortfall ==
    /\ limiter.tokens <= limiter.maxTokens * MsPerMinute
    /\ limiter.tokens >= 0 - Suspensions * WaitShortfall(limiter)
    /\ MsPerMinute % limiter.limits.requests_per_minute = 0 => limiter.tokens >= 0

\* At 120 requests per minute a suspended acquire() has returned at the
\* end of its wait of 500 ms, which refilled the token it took: the bucket
\* is at 0.
C40_Witness ==
    /\ limiter.limits.requests_per_minute = 120
    /\ Len(acqLog) >= 2
    /\ acqLog[Len(acqLog)].suspended
    /\ acqLog[Len(acqLog)].returned = acqLog[Len(acqLog)].at + 500
    /\ now = acqLog[Len(acqLog)].returned
    /\ limiter.tokens = 0

=============================================================================
